---- MODULE Spec2Model ----
(***************************************************************************)
(* Batch pipeline of the startup-classification experiment:                *)
(*   - the batch partitioner (calculate_batch_sizes and the row ranges of  *)
(*     create_single_batch_file / create_all_batch_files),                 *)
(*   - the batch lifecycle orchestrator in its two scripts, the parallel   *)
(*     one (MTA_multi_batch_PARALLEL.py) and the sequential one            *)
(*     (MTA_multi_batch_short_only.py), against a remote batch service     *)
(*     and the per-batch files of the working directory.                   *)
(***************************************************************************)
EXTENDS Integers, Sequences, FiniteSets, TLC

(***************************************************************************)
(* Bounds of the model.                                                    *)
(***************************************************************************)
\* largest record count (rows of INPUT_CSV) the partitioner is run on
MaxN == 12
\* largest number of lines of a fetched result file the parse loop is run on
MaxLines == 2
\* largest number of fields of a response row the parse loop is run on
MaxFields == 8
\* largest record count a whole successful run is followed on
MaxRunN == 3
\* largest number of batches merge_all_results is run on
MaxMergeBatches == 10
\* largest number of rows of a batch table other than the last one
MaxTableRows == 2
\* largest number of batch tables whose writing was cut short
MaxPartial == 1

\* identifiers in the tables the comparator is given
MaxCmpIds == 2

\* rows of the raw dataset the filter is given
MaxRawRows == 2

\* characters of the generated date cells
MaxDateLen == 5

\* identifier files the status-check helper finds
MaxIdFiles == 3
\* largest number of batches the orchestrator is run on
MaxBatches == 2
\* invocations of a script over one working directory (the first run and reruns)
MaxRuns == 2

(***************************************************************************)
(* Program constants (SECTION 2 of both scripts).                          *)
(***************************************************************************)
MAX_REQUESTS_PER_BATCH == 50000
MAX_FILE_SIZE_MB == 100
MAX_ENQUEUED_TOKENS_PER_DAY == 1000000000
SEQ_ESTIMATED_TOKENS_PER_REQUEST == 3400
PAR_ESTIMATED_TOKENS_PER_REQUEST == 3200
ESTIMATED_KB_PER_REQUEST == 12

Min(a, b) == IF a <= b THEN a ELSE b

Max(a, b) == IF a >= b THEN a ELSE b

VARIABLES
    \* ---- which script runs
    mode,                   \* "parallel" | "sequential"
    \* ---- partitioner
    config,                 \* the configuration constants the script was started with
    total_startups,         \* len(df)
    max_requests_per_batch, \* the limit calculate_batch_sizes divides by
    num_batches,
    startups_per_batch,
    batch_num,              \* loop variable of the per-batch loops
    batch_rows,             \* <<start_idx, end_idx>> of the batches built so far
    pc,
    \* ---- the working directory, per batch number
    jsonl_file,             \* batch_<n>_requests.jsonl: "absent" | "partial" | "full" | "oversize"
    batch_id_file,          \* batch_<n>_id.txt: NoFile | EmptyId | the id written
    results_jsonl,          \* batch_<n>_results.jsonl: "absent" | "full"
    results_csv,            \* batch_<n>_output.csv: "absent" | "partial" | "full"
    output_csv,             \* OUTPUT_CSV: whether it exists and the batch tables merged into it
    \* ---- the remote batch service
    remote,                 \* the batches created on it; a batch's id is its index
    \* ---- the running script
    batch_ids,              \* parallel: the ids upload_all_batches returned, by batch number
    batch_id,               \* the id of the batch just created / being handled
    status,                 \* the last status retrieved
    all_done,               \* parallel: the flag of the current poll round
    \* ---- history of the current invocation (what it did so far)
    run,                    \* number of the invocation
    attempts,               \* per batch: calls of client.files.create
    submit_raised,          \* per batch: its submission raised
    seen_completed,         \* per batch: a status retrieval returned "completed"
    fetched,                \* per batch: client.files.content was called
    merge_called,           \* merge_all_results was called
    prior_complete,         \* the invocation started over a fully completed run
    \* ---- the parse loop of the download step, over one fetched result file
    lines,                  \* the lines of results_jsonl
    line_num,               \* the line the loop is at
    parsed_results,         \* the records appended so far
    warnings,               \* the lines the loop printed a warning for
    \* ---- merge_all_results over the tables of the output directory
    batch_tables,           \* per batch: the rows of batch_<n>_output.csv
    final_df,               \* the rows of OUTPUT_CSV
    printed,                \* the messages merge_all_results and main printed
    merge_result,           \* what merge_all_results returned, once it has
    \* ---- the start of an entry script
    environment,            \* the files and the environment the script is started in
    api_key,                \* the module-level api_key
    remote_called,          \* a call to the remote service was made
    \* ---- analysis/compare_classifications.py
    df_week9_full,          \* the first result table: identifier |-> its cells
    df_week10_short,        \* the second result table: identifier |-> its cells
    both_desc_uuids,        \* the org_uuid values of the filtered dataset
    df_merged,              \* the joined rows
    metrics,                \* the numbers the script prints
    \* ---- prepare_dataset.py
    INPUT_CSV,              \* the rows of the raw dataset file, as text
    df,                     \* the raw dataset as read
    df_both,                \* the rows kept
    OUTPUT_CSV,             \* the filtered dataset file
    \* ---- monitor_all_batches
    failed,                 \* the batches the round at hand has counted as failed
    \* ---- format_user_message
    founded_date,           \* the 'Founded Date' cell of the row
    year_founded,           \* what extract_year_from_date returned for it
    \* ---- helper_scripts/check_all_batches_status.py
    totals                  \* total_completed, total_in_progress, total_failed, total_pending

parseVars == <<lines, line_num, parsed_results, warnings>>

mergeVars == <<batch_tables, final_df, printed, merge_result>>

startVars == <<environment, api_key, remote_called>>

compareVars == <<df_week9_full, df_week10_short, both_desc_uuids, df_merged, metrics>>

prepVars == <<INPUT_CSV, df, df_both, OUTPUT_CSV>>

\* the variables of the steps checked on their own
yearVars == <<founded_date, year_founded>>

auxOther == <<mergeVars, startVars, compareVars, prepVars, yearVars, totals>>

\* with the counter of the poll round, which only a poll round changes
auxVars == <<auxOther, failed>>

\* these steps have not run
PrepIdle ==
    /\ INPUT_CSV = <<>> /\ df = <<>> /\ df_both = <<>>
    /\ OUTPUT_CSV = [exists |-> FALSE, rows |-> <<>>]
    /\ failed = 0
    /\ founded_date = <<>> /\ year_founded = <<>>
    /\ totals = <<>>

CompareIdle ==
    /\ df_week9_full = <<>> /\ df_week10_short = <<>> /\ both_desc_uuids = {}
    /\ df_merged = <<>> /\ metrics = <<>>
    /\ PrepIdle

StartIdle == environment = <<>> /\ api_key = "" /\ remote_called = FALSE /\ CompareIdle

MergeIdle ==
    /\ batch_tables = <<>> /\ final_df = <<>> /\ printed = <<>> /\ merge_result = <<>>
    /\ StartIdle

partVars == <<config, total_startups, max_requests_per_batch, startups_per_batch, batch_rows,
              parseVars, auxVars>>

fileVars == <<jsonl_file, batch_id_file, results_jsonl, results_csv, output_csv>>

histVars == <<run, attempts, submit_raised, seen_completed, fetched, merge_called,
              prior_complete>>

\* what no step of the orchestrator changes, the counter of the poll round apart
pollFixed == <<mode, num_batches, config, total_startups, max_requests_per_batch,
               startups_per_batch, batch_rows, parseVars, auxOther>>

\* what no step of the orchestrator outside a poll round changes
fixedVars == <<mode, num_batches, config, total_startups, max_requests_per_batch,
               startups_per_batch, batch_rows, parseVars, auxVars>>

orchVars == <<jsonl_file, batch_id_file, results_jsonl, results_csv, output_csv, remote,
              batch_ids, batch_id, status, all_done, run, attempts, submit_raised,
              seen_completed, fetched, merge_called, prior_complete, parseVars,
              auxVars>>

vars == <<mode, config, total_startups, max_requests_per_batch, num_batches,
          startups_per_batch, batch_num, batch_rows, pc, jsonl_file, batch_id_file,
          results_jsonl, results_csv, output_csv, remote, batch_ids, batch_id, status,
          all_done, run, attempts, submit_raised, seen_completed, fetched,
          merge_called, prior_complete, lines, line_num, parsed_results, warnings,
          batch_tables, final_df, printed, merge_result, environment, api_key,
          remote_called, df_week9_full, df_week10_short, both_desc_uuids, df_merged,
          metrics, INPUT_CSV, df, df_both, OUTPUT_CSV, failed, founded_date, year_founded,
          totals>>

(***************************************************************************)
(* The batch partitioner.                                                  *)
(***************************************************************************)

\* The configurations the partitioner is checked on: the shipped constants and
\* scaled-down values of each of them (they are edited per experiment).
Configs ==
    [ MAX_FILE_SIZE_MB : {1, MAX_FILE_SIZE_MB},
      estimated_kb_per_request : {ESTIMATED_KB_PER_REQUEST, 256, 512, 1024},
      MAX_REQUESTS_PER_BATCH : {3, MAX_REQUESTS_PER_BATCH},
      MAX_ENQUEUED_TOKENS_PER_DAY : {6800, MAX_ENQUEUED_TOKENS_PER_DAY} ]

\* int(MAX_FILE_SIZE_MB / (estimated_kb_per_request / 1024))
MaxRequestsForSize(c) == (c.MAX_FILE_SIZE_MB * 1024) \div c.estimated_kb_per_request

\* MAX_ENQUEUED_TOKENS_PER_DAY // ESTIMATED_TOKENS_PER_REQUEST
MaxRequestsForDailyTokens(c, m) ==
    c.MAX_ENQUEUED_TOKENS_PER_DAY \div
        (IF m = "sequential" THEN SEQ_ESTIMATED_TOKENS_PER_REQUEST
                             ELSE PAR_ESTIMATED_TOKENS_PER_REQUEST)

\* sequential script: min(max_requests_for_size, MAX_REQUESTS_PER_BATCH);
\* max_requests_for_daily_tokens is computed and printed, not used
SeqLimit(c) == Min(MaxRequestsForSize(c), c.MAX_REQUESTS_PER_BATCH)

\* parallel script: the file-size limit alone
ParLimit(c) == MaxRequestsForSize(c)

\* (total_startups + max_requests_per_batch - 1) // max_requests_per_batch
NumBatches_FloorPlusOne(n, limit) == n \div limit + 1

NumBatches(n, limit) == (n + limit - 1) \div limit

\* total_startups // num_batches
StartupsPerBatch(n, nb) == n \div nb

\* start_idx = (batch_num - 1) * startups_per_batch
StartIdx_DropFirst(b, spb) == b * spb

StartIdx(b, spb) == (b - 1) * spb

\* end_idx = total_startups for the last batch, start_idx + startups_per_batch otherwise
EndIdx_NoRemainder(b, nb, spb, n) == StartIdx(b, spb) + spb

EndIdx(b, nb, spb, n) == IF b = nb THEN n ELSE StartIdx(b, spb) + spb

\* df.iloc[start_idx:end_idx]: the slice is clamped to the rows the frame has
Iloc(start, end, n) == <<Min(Max(start, 0), n), Max(Min(Max(start, 0), n), Min(end, n))>>

BatchLen(r) == r[2] - r[1]

\* calculate_batch_sizes of the sequential script
SeqCalculateBatchSizes ==
    /\ pc = "calc" /\ mode = "sequential"
    /\ max_requests_per_batch' = SeqLimit(config)
    /\ num_batches' = NumBatches(total_startups, SeqLimit(config))
    /\ startups_per_batch' =
           StartupsPerBatch(total_startups, NumBatches(total_startups, SeqLimit(config)))
    /\ batch_num' = 1
    /\ pc' = "rows"
    /\ UNCHANGED orchVars
    /\ UNCHANGED <<mode, config, total_startups, batch_rows>>

\* calculate_batch_sizes of the parallel script
ParCalculateBatchSizes ==
    /\ pc = "calc" /\ mode = "parallel"
    /\ max_requests_per_batch' = ParLimit(config)
    /\ num_batches' = NumBatches(total_startups, ParLimit(config))
    /\ startups_per_batch' =
           StartupsPerBatch(total_startups, NumBatches(total_startups, ParLimit(config)))
    /\ batch_num' = 1
    /\ pc' = "rows"
    /\ UNCHANGED orchVars
    /\ UNCHANGED <<mode, config, total_startups, batch_rows>>

\* the row range of batch batch_num, as both scripts compute it when they build
\* the batch's payload (for batch_num in range(1, num_batches + 1))
BatchRows ==
    /\ pc = "rows" /\ batch_num <= num_batches
    /\ batch_rows' = Append(batch_rows,
           Iloc(StartIdx(batch_num, startups_per_batch),
                EndIdx(batch_num, num_batches, startups_per_batch, total_startups),
                total_startups))
    /\ batch_num' = batch_num + 1
    /\ UNCHANGED orchVars
    /\ UNCHANGED <<mode, config, total_startups, max_requests_per_batch, num_batches,
                   startups_per_batch, pc>>

BatchRowsDone ==
    /\ pc = "rows" /\ batch_num > num_batches
    /\ pc' = "rows_done"
    /\ UNCHANGED orchVars
    /\ UNCHANGED <<mode, config, total_startups, max_requests_per_batch, num_batches,
                   startups_per_batch, batch_num, batch_rows>>

PartInit ==
    /\ mode \in {"parallel", "sequential"}
    /\ config \in Configs
    /\ total_startups \in 1..MaxN
    /\ max_requests_per_batch = 0
    /\ num_batches = 0
    /\ startups_per_batch = 0
    /\ batch_num = 0
    /\ batch_rows = <<>>
    /\ pc = "calc"
    /\ jsonl_file = <<>> /\ batch_id_file = <<>> /\ results_jsonl = <<>> /\ results_csv = <<>>
    /\ output_csv = [exists |-> FALSE, batches |-> <<>>]
    /\ remote = <<>> /\ batch_ids = <<>> /\ batch_id = -1 /\ status = "" /\ all_done = TRUE
    /\ run = 1 /\ attempts = <<>> /\ submit_raised = <<>>
    /\ seen_completed = <<>> /\ fetched = <<>> /\ merge_called = FALSE
    /\ prior_complete = FALSE
    /\ lines = <<>> /\ line_num = 0 /\ parsed_results = <<>> /\ warnings = 0
    /\ MergeIdle

PartNext ==
    \/ SeqCalculateBatchSizes
    \/ ParCalculateBatchSizes
    \/ BatchRows
    \/ BatchRowsDone

PartSpec == PartInit /\ [][PartNext]_vars

(***************************************************************************)
(* Properties of the partitioner (checked under PartSpec).                 *)
(***************************************************************************)
RECURSIVE SumLens(_)
SumLens(rows) == IF rows = <<>> THEN 0 ELSE BatchLen(Head(rows)) + SumLens(Tail(rows))

\* the batches that contain row r
BatchesOfRow(r) == {i \in 1..Len(batch_rows) : batch_rows[i][1] <= r /\ r < batch_rows[i][2]}

\* C4: every batch built, the remainder-absorbing last one included, holds at
\* most as many records as the per-batch limit the batch count was computed from.
C4_EveryBatchWithinLimit ==
    \A i \in 1..Len(batch_rows) : BatchLen(batch_rows[i]) <= max_requests_per_batch

\* C5: the batch sizes sum exactly to N, and every batch other than the last
\* has floor(N / num_batches) records.
C5_SizesSumToN ==
    /\ \A i \in 1..Len(batch_rows) :
           i < num_batches => BatchLen(batch_rows[i]) = total_startups \div num_batches
    /\ pc = "rows_done" =>
           /\ Len(batch_rows) = num_batches
           /\ SumLens(batch_rows) = total_startups

C5_Witness ==
    /\ pc = "rows_done" /\ num_batches >= 3
    /\ BatchLen(batch_rows[num_batches]) # BatchLen(batch_rows[1])

\* C6: the row ranges of batches 1..num_batches start at row 0, each starts
\* where the one before ends, the last ends at N, and so every row 0..N-1 is in
\* exactly one batch.
C6_RangesPartitionRows ==
    /\ \A i \in 1..Len(batch_rows) :
           /\ batch_rows[i][1] <= batch_rows[i][2]
           /\ batch_rows[i][1] = (IF i = 1 THEN 0 ELSE batch_rows[i - 1][2])
    /\ pc = "rows_done" =>
           /\ batch_rows[num_batches][2] = total_startups
           /\ \A r \in 0..(total_startups - 1) : Cardinality(BatchesOfRow(r)) = 1

C6_Witness ==
    /\ pc = "rows_done" /\ num_batches >= 3
    /\ \A r \in 0..(total_startups - 1) : Cardinality(BatchesOfRow(r)) = 1
    /\ BatchesOfRow(0) # BatchesOfRow(total_startups - 1)

\* the most restrictive of the three constraints of the configuration
MinOfThreeConstraints ==
    Min(config.MAX_REQUESTS_PER_BATCH,
        Min(MaxRequestsForSize(config), MaxRequestsForDailyTokens(config, mode)))

\* C7: the limit the batch count is computed from is the minimum of the three
\* constraints (requests per submission, requests that fit the file size,
\* requests the daily token quota allows), batch_count = ceil(N / limit) and
\* records_per_batch = floor(N / batch_count), in both scripts.
C7_LimitIsMinOfThree ==
    pc # "calc" =>
        /\ max_requests_per_batch = MinOfThreeConstraints
        /\ num_batches = (total_startups + MinOfThreeConstraints - 1) \div MinOfThreeConstraints
        /\ startups_per_batch = total_startups \div num_batches

(***************************************************************************)
(* The batch lifecycle orchestrator: shared definitions.                   *)
(***************************************************************************)
\* Python's None where an id is expected, and a batch id file that does not exist
None == -1

NoFile == -1

\* the empty string: what f.read().strip() gives for an id file that was opened
\* for writing and never written
EmptyId == 0

NonTerminal == {"validating", "in_progress"}

Terminal == {"completed", "failed", "expired", "cancelled"}

Batches == 1..num_batches

\* `if not batch_id`: None and the empty string are falsy
Falsy(id) == id = None \/ id = EmptyId

\* os.path.exists on the batch's payload file / parsed table
Exists(f) == f # "absent"

\* batch.status as client.batches.retrieve(id) returns it
RemoteStatus(id) == remote[id].status

\* the shipped configuration and no dataset: the orchestrator is started on the
\* number of batches calculate_batch_sizes returned
OrchInit ==
    /\ mode \in {"parallel", "sequential"}
    /\ config = [MAX_FILE_SIZE_MB |-> MAX_FILE_SIZE_MB,
                 estimated_kb_per_request |-> ESTIMATED_KB_PER_REQUEST,
                 MAX_REQUESTS_PER_BATCH |-> MAX_REQUESTS_PER_BATCH,
                 MAX_ENQUEUED_TOKENS_PER_DAY |-> MAX_ENQUEUED_TOKENS_PER_DAY]
    /\ total_startups = 0 /\ max_requests_per_batch = 0 /\ startups_per_batch = 0
    /\ batch_rows = <<>>
    /\ num_batches \in 1..MaxBatches
    /\ batch_num = 1
    /\ pc = IF mode = "parallel" THEN "p_create" ELSE "s_create"
    /\ jsonl_file = [b \in Batches |-> "absent"]
    /\ batch_id_file = [b \in Batches |-> NoFile]
    /\ results_jsonl = [b \in Batches |-> "absent"]
    /\ results_csv = [b \in Batches |-> "absent"]
    /\ output_csv = [exists |-> FALSE, batches |-> <<>>]
    /\ remote = <<>>
    /\ batch_ids = <<>>
    /\ batch_id = None
    /\ status = ""
    /\ all_done = TRUE
    /\ run = 1
    /\ attempts = [b \in Batches |-> 0]
    /\ submit_raised = [b \in Batches |-> FALSE]
    /\ seen_completed = [b \in Batches |-> FALSE]
    /\ fetched = [b \in Batches |-> FALSE]
    /\ merge_called = FALSE
    /\ prior_complete = FALSE
    /\ lines = <<>> /\ line_num = 0 /\ parsed_results = <<>> /\ warnings = 0
    /\ MergeIdle

\* What client.batches.retrieve may return for a batch last seen in status st: the
\* service moves a batch from validating to in_progress and on to a terminal
\* status, or fails / cancels / expires it on the way; a terminal status is final.
\* The service's progress shows only in what a retrieval returns, so the model
\* lets a batch move when it is retrieved.
StatusAfter(st) ==
    IF st \in Terminal THEN {st}
    ELSE IF st = "validating" THEN NonTerminal \cup Terminal
    ELSE {"in_progress"} \cup Terminal

\* the service records the status it returned for batch id
Retrieved(id, s) == remote' = [remote EXCEPT ![id].status = s]

\* every result table of the run exists, complete, for a batch the service completed
FullyCompleted ==
    /\ pc = "done"
    /\ \A b \in Batches :
          /\ batch_id_file[b] >= 1
          /\ RemoteStatus(batch_id_file[b]) = "completed"
          /\ results_jsonl[b] = "full"
          /\ results_csv[b] = "full"

\* The script is started again over the same working directory, after the
\* invocation before it ended or was terminated (at any point).
Rerun ==
    /\ run < MaxRuns
    /\ run' = run + 1
    /\ prior_complete' = FullyCompleted
    /\ pc' = IF mode = "parallel" THEN "p_create" ELSE "s_create"
    /\ batch_num' = 1
    /\ batch_ids' = <<>>
    /\ batch_id' = None
    /\ status' = ""
    /\ all_done' = TRUE
    /\ attempts' = [b \in Batches |-> 0]
    /\ submit_raised' = [b \in Batches |-> FALSE]
    /\ seen_completed' = [b \in Batches |-> FALSE]
    /\ fetched' = [b \in Batches |-> FALSE]
    /\ merge_called' = FALSE
    /\ failed' = 0
    /\ UNCHANGED <<pollFixed, remote, fileVars>>

\* merge_all_results (the same in both scripts): the batch tables found, sorted, are
\* concatenated into OUTPUT_CSV; nothing is written when none is found. The
\* paths are sorted as strings: below ten batches that is the order of the
\* batch numbers (SortedFiles, further down, is the sort itself).
RECURSIVE TablesFound(_)
TablesFound(n) ==
    IF n = 0 THEN <<>>
    ELSE IF Exists(results_csv[n]) THEN Append(TablesFound(n - 1), n)
    ELSE TablesFound(n - 1)

MergeAllResults ==
    /\ merge_called' = TRUE
    /\ output_csv' = IF TablesFound(num_batches) = <<>> THEN output_csv
                     ELSE [exists |-> TRUE, batches |-> TablesFound(num_batches)]

(***************************************************************************)
(* The parallel script (MTA_multi_batch_PARALLEL.py): main runs            *)
(* create_all_batch_files, upload_all_batches, monitor_all_batches,        *)
(* download_all_results and merge_all_results, in this order.              *)
(***************************************************************************)

\* ---- create_all_batch_files: for batch_num in range(1, num_batches + 1)
ParCreateSkip_Rewrite ==
    /\ pc = "p_create" /\ batch_num <= num_batches
    /\ Exists(jsonl_file[batch_num])
    /\ jsonl_file' = [jsonl_file EXCEPT ![batch_num] = "full"]
    /\ batch_num' = batch_num + 1
    /\ UNCHANGED <<pc, batch_ids, batch_id, status, all_done, remote>>
    /\ UNCHANGED <<fixedVars, batch_id_file, results_jsonl, results_csv, output_csv, histVars>>

ParCreateSkip ==
    /\ pc = "p_create" /\ batch_num <= num_batches
    /\ Exists(jsonl_file[batch_num])
    /\ batch_num' = batch_num + 1
    /\ UNCHANGED <<pc, batch_ids, batch_id, status, all_done, remote>>
    /\ UNCHANGED <<fixedVars, fileVars, histVars>>

\* open(jsonl_filename, "w") creates the file; the requests are written after it
ParCreateOpen ==
    /\ pc = "p_create" /\ batch_num <= num_batches
    /\ ~Exists(jsonl_file[batch_num])
    /\ jsonl_file' = [jsonl_file EXCEPT ![batch_num] = "partial"]
    /\ pc' = "p_create_write"
    /\ UNCHANGED <<batch_num, batch_ids, batch_id, status, all_done, remote>>
    /\ UNCHANGED <<fixedVars, batch_id_file, results_jsonl, results_csv, output_csv, histVars>>

\* every request of the batch is written; the file ends below or above MAX_FILE_SIZE_MB
ParCreateWrite ==
    /\ pc = "p_create_write"
    /\ \E size \in {"full", "oversize"} :
          jsonl_file' = [jsonl_file EXCEPT ![batch_num] = size]
    /\ batch_num' = batch_num + 1
    /\ pc' = "p_create"
    /\ UNCHANGED <<batch_ids, batch_id, status, all_done, remote>>
    /\ UNCHANGED <<fixedVars, batch_id_file, results_jsonl, results_csv, output_csv, histVars>>

ParCreateDone ==
    /\ pc = "p_create" /\ batch_num > num_batches
    /\ pc' = "p_upload"
    /\ batch_num' = 1
    /\ batch_ids' = <<>>
    /\ UNCHANGED <<batch_id, status, all_done, remote>>
    /\ UNCHANGED <<fixedVars, fileVars, histVars>>

\* ---- upload_all_batches: for batch_num in range(1, num_batches + 1)
\* the id file exists: its content is taken as the batch's id, nothing is submitted
ParUploadSkip ==
    /\ pc = "p_upload" /\ batch_num <= num_batches
    /\ batch_id_file[batch_num] # NoFile
    /\ batch_ids' = Append(batch_ids, batch_id_file[batch_num])
    /\ batch_num' = batch_num + 1
    /\ UNCHANGED <<pc, batch_id, status, all_done, remote>>
    /\ UNCHANGED <<fixedVars, fileVars, histVars>>

\* client.files.create returns
ParUploadFile ==
    /\ pc = "p_upload" /\ batch_num <= num_batches
    /\ batch_id_file[batch_num] = NoFile
    /\ attempts' = [attempts EXCEPT ![batch_num] = @ + 1]
    /\ pc' = "p_batch_create"
    /\ UNCHANGED <<batch_num, batch_ids, batch_id, status, all_done, remote>>
    /\ UNCHANGED <<fixedVars, fileVars, run, submit_raised, seen_completed, fetched,
                   merge_called, prior_complete>>

\* except Exception: the batch is recorded with None and the loop goes on
ParUploadFailed_Retry ==
    /\ submit_raised' = [submit_raised EXCEPT ![batch_num] = TRUE]
    /\ pc' = "p_upload"
    /\ UNCHANGED <<batch_num, batch_ids, batch_id, status, all_done, remote>>
    /\ UNCHANGED <<fixedVars, fileVars, run, seen_completed, fetched, merge_called,
                   prior_complete>>

ParUploadFailed ==
    /\ submit_raised' = [submit_raised EXCEPT ![batch_num] = TRUE]
    /\ batch_ids' = Append(batch_ids, None)
    /\ batch_num' = batch_num + 1
    /\ pc' = "p_upload"
    /\ batch_id' = None
    /\ UNCHANGED <<status, all_done, remote>>
    /\ UNCHANGED <<fixedVars, fileVars, run, seen_completed, fetched, merge_called,
                   prior_complete>>

\* client.files.create raises
ParUploadFileRaise ==
    /\ pc = "p_upload" /\ batch_num <= num_batches
    /\ batch_id_file[batch_num] = NoFile
    /\ attempts' = [attempts EXCEPT ![batch_num] = @ + 1]
    /\ ParUploadFailed

\* client.batches.create returns: the service holds a new batch, being validated
ParBatchCreate ==
    /\ pc = "p_batch_create"
    /\ remote' = Append(remote, [status |-> "validating", num |-> batch_num])
    /\ batch_id' = Len(remote) + 1
    /\ pc' = "p_save_id"
    /\ UNCHANGED <<batch_num, batch_ids, status, all_done>>
    /\ UNCHANGED <<fixedVars, fileVars, histVars>>

\* client.batches.create raises
ParBatchCreateRaise ==
    /\ pc = "p_batch_create"
    /\ UNCHANGED attempts
    /\ ParUploadFailed

\* open(batch_id_file, "w") creates the file, empty
ParSaveIdOpen ==
    /\ pc = "p_save_id"
    /\ batch_id_file' = [batch_id_file EXCEPT ![batch_num] = EmptyId]
    /\ pc' = "p_save_id_write"
    /\ UNCHANGED <<batch_num, batch_ids, batch_id, status, all_done, remote>>
    /\ UNCHANGED <<fixedVars, jsonl_file, results_jsonl, results_csv, output_csv, histVars>>

\* f.write(batch.id), and the file is closed
ParSaveIdWrite_NotWritten ==
    /\ pc = "p_save_id_write"
    /\ pc' = "p_record"
    /\ UNCHANGED <<batch_num, batch_ids, batch_id, status, all_done, remote>>
    /\ UNCHANGED <<fixedVars, fileVars, histVars>>

ParSaveIdWrite ==
    /\ pc = "p_save_id_write"
    /\ batch_id_file' = [batch_id_file EXCEPT ![batch_num] = batch_id]
    /\ pc' = "p_record"
    /\ UNCHANGED <<batch_num, batch_ids, batch_id, status, all_done, remote>>
    /\ UNCHANGED <<fixedVars, jsonl_file, results_jsonl, results_csv, output_csv, histVars>>

\* batch_ids.append((batch_num, batch.id)); time.sleep(1); `batch` is not read again
ParRecord ==
    /\ pc = "p_record"
    /\ batch_ids' = Append(batch_ids, batch_id)
    /\ batch_num' = batch_num + 1
    /\ pc' = "p_upload"
    /\ batch_id' = None
    /\ UNCHANGED <<status, all_done, remote>>
    /\ UNCHANGED <<fixedVars, fileVars, histVars>>

\* return batch_ids; monitor_all_batches starts its first round
ParUploadDone ==
    /\ pc = "p_upload" /\ batch_num > num_batches
    /\ pc' = "p_monitor"
    /\ batch_num' = 1
    /\ all_done' = TRUE
    /\ UNCHANGED <<batch_ids, batch_id, status, remote>>
    /\ UNCHANGED <<fixedVars, fileVars, histVars>>

\* ---- monitor_all_batches: while True, for batch_num, batch_id in batch_ids
\* `if not batch_id`: counted as failed, not polled
ParPollNoId_ClearsAllDone ==
    /\ pc = "p_monitor" /\ batch_num <= Len(batch_ids)
    /\ Falsy(batch_ids[batch_num])
    /\ failed' = failed + 1
    /\ all_done' = FALSE
    /\ batch_num' = batch_num + 1
    /\ UNCHANGED <<pc, batch_ids, batch_id, status, remote>>
    /\ UNCHANGED <<pollFixed, fileVars, histVars>>

ParPollNoId ==
    /\ pc = "p_monitor" /\ batch_num <= Len(batch_ids)
    /\ Falsy(batch_ids[batch_num])
    /\ failed' = failed + 1
    /\ batch_num' = batch_num + 1
    /\ UNCHANGED <<pc, batch_ids, batch_id, status, all_done, remote>>
    /\ UNCHANGED <<pollFixed, fileVars, histVars>>

\* the statuses that leave all_done as it is: "completed" and "failed"; "in_progress"
\* and every other status (the else branch) clear it
ParCountsAsDone(s) == s \in {"completed", "failed"}

\* client.batches.retrieve(batch_id) returns
ParPoll ==
    /\ pc = "p_monitor" /\ batch_num <= Len(batch_ids)
    /\ ~Falsy(batch_ids[batch_num])
    /\ \E s \in StatusAfter(RemoteStatus(batch_ids[batch_num])) :
          /\ Retrieved(batch_ids[batch_num], s)
          /\ all_done' = (all_done /\ ParCountsAsDone(s))
          /\ failed' = IF s = "failed" THEN failed + 1 ELSE failed
          /\ seen_completed' = [seen_completed EXCEPT ![batch_num] = @ \/ s = "completed"]
    /\ batch_num' = batch_num + 1
    /\ UNCHANGED <<pc, batch_ids, batch_id, status>>
    /\ UNCHANGED <<pollFixed, fileVars, run, attempts, submit_raised, fetched,
                   merge_called, prior_complete>>

\* client.batches.retrieve raises: all_done = False, the round goes on
ParPollRaise_EndsRound ==
    /\ pc = "p_monitor" /\ batch_num <= Len(batch_ids)
    /\ ~Falsy(batch_ids[batch_num])
    /\ all_done' = FALSE
    /\ batch_num' = Len(batch_ids) + 1
    /\ UNCHANGED <<pc, batch_ids, batch_id, status, remote>>
    /\ UNCHANGED <<fixedVars, fileVars, run, attempts, submit_raised, seen_completed, fetched,
                   merge_called, prior_complete>>

ParPollRaise ==
    /\ pc = "p_monitor" /\ batch_num <= Len(batch_ids)
    /\ ~Falsy(batch_ids[batch_num])
    /\ all_done' = FALSE
    /\ batch_num' = batch_num + 1
    /\ UNCHANGED <<pc, batch_ids, batch_id, status, remote>>
    /\ UNCHANGED <<fixedVars, fileVars, run, attempts, submit_raised, seen_completed, fetched,
                   merge_called, prior_complete>>

\* the end of a round: break when all_done, else sleep 60 s and start the next round
ParRoundEnd_ResubmitFailed ==
    /\ pc = "p_monitor" /\ batch_num > Len(batch_ids)
    /\ pc' = IF all_done THEN "p_download" ELSE "p_upload"
    /\ batch_num' = 1
    /\ all_done' = TRUE
    /\ batch_ids' = IF all_done THEN batch_ids ELSE <<>>
    /\ failed' = 0
    /\ UNCHANGED <<batch_id, status, remote>>
    /\ UNCHANGED <<pollFixed, fileVars, histVars>>

ParRoundEnd ==
    /\ pc = "p_monitor" /\ batch_num > Len(batch_ids)
    /\ pc' = IF all_done THEN "p_download" ELSE "p_monitor"
    /\ batch_num' = 1
    /\ all_done' = TRUE
    /\ failed' = 0
    /\ UNCHANGED <<batch_ids, batch_id, status, remote>>
    /\ UNCHANGED <<pollFixed, fileVars, histVars>>

\* ---- download_all_results: for batch_num, batch_id in batch_ids
ParDownloadNoId ==
    /\ pc = "p_download" /\ batch_num <= Len(batch_ids)
    /\ Falsy(batch_ids[batch_num])
    /\ batch_num' = batch_num + 1
    /\ UNCHANGED <<pc, batch_ids, batch_id, status, all_done, remote>>
    /\ UNCHANGED <<fixedVars, fileVars, histVars>>

\* os.path.exists(results_csv): already downloaded
ParDownloadSkip ==
    /\ pc = "p_download" /\ batch_num <= Len(batch_ids)
    /\ ~Falsy(batch_ids[batch_num])
    /\ Exists(results_csv[batch_num])
    /\ batch_num' = batch_num + 1
    /\ UNCHANGED <<pc, batch_ids, batch_id, status, all_done, remote>>
    /\ UNCHANGED <<fixedVars, fileVars, histVars>>

\* `if batch.status != "completed": continue`
DownloadAdmits_AnyTerminal(s) == s \in Terminal

DownloadAdmits(s) == s = "completed"

\* client.batches.retrieve(batch_id) returns; only a completed batch goes on
ParDownloadRetrieve ==
    /\ pc = "p_download" /\ batch_num <= Len(batch_ids)
    /\ ~Falsy(batch_ids[batch_num])
    /\ ~Exists(results_csv[batch_num])
    /\ \E s \in StatusAfter(RemoteStatus(batch_ids[batch_num])) :
          /\ Retrieved(batch_ids[batch_num], s)
          /\ seen_completed' = [seen_completed EXCEPT ![batch_num] = @ \/ s = "completed"]
          /\ IF DownloadAdmits(s)
             THEN /\ pc' = "p_dl_fetch"
                  /\ batch_num' = batch_num
             ELSE /\ pc' = "p_download"
                  /\ batch_num' = batch_num + 1
    /\ UNCHANGED <<batch_ids, batch_id, status, all_done>>
    /\ UNCHANGED <<fixedVars, fileVars, run, attempts, submit_raised, fetched,
                   merge_called, prior_complete>>

\* except Exception in download_all_results: the next batch is handled
ParDownloadFailed ==
    /\ pc' = "p_download"
    /\ batch_num' = batch_num + 1
    /\ UNCHANGED <<batch_ids, batch_id, status, all_done, remote>>
    /\ UNCHANGED <<fixedVars, fileVars, run, attempts, submit_raised, seen_completed, fetched,
                   merge_called, prior_complete>>

\* client.batches.retrieve raises
ParDownloadRetrieveRaise ==
    /\ pc = "p_download" /\ batch_num <= Len(batch_ids)
    /\ ~Falsy(batch_ids[batch_num])
    /\ ~Exists(results_csv[batch_num])
    /\ ParDownloadFailed

\* client.files.content(batch.output_file_id) returns
ParFetch ==
    /\ pc = "p_dl_fetch"
    /\ fetched' = [fetched EXCEPT ![batch_num] = TRUE]
    /\ pc' = "p_dl_save"
    /\ UNCHANGED <<batch_num, batch_ids, batch_id, status, all_done, remote>>
    /\ UNCHANGED <<fixedVars, fileVars, run, attempts, submit_raised, seen_completed,
                   merge_called, prior_complete>>

\* client.files.content raises (also: the batch has no output file)
ParFetchRaise ==
    /\ pc = "p_dl_fetch"
    /\ ParDownloadFailed

\* the raw results are written to results_jsonl
ParSaveRaw ==
    /\ pc = "p_dl_save"
    /\ results_jsonl' = [results_jsonl EXCEPT ![batch_num] = "full"]
    /\ pc' = "p_dl_parse"
    /\ UNCHANGED <<batch_num, batch_ids, batch_id, status, all_done, remote>>
    /\ UNCHANGED <<fixedVars, jsonl_file, batch_id_file, results_csv, output_csv, histVars>>

\* the lines are parsed; `if parsed_results:` to_csv opens results_csv, else a warning
ParParse ==
    /\ pc = "p_dl_parse"
    /\ \E any_valid \in BOOLEAN :
          IF any_valid
          THEN /\ results_csv' = [results_csv EXCEPT ![batch_num] = "partial"]
               /\ pc' = "p_dl_csv"
               /\ batch_num' = batch_num
          ELSE /\ results_csv' = results_csv
               /\ pc' = "p_download"
               /\ batch_num' = batch_num + 1
    /\ UNCHANGED <<batch_ids, batch_id, status, all_done, remote>>
    /\ UNCHANGED <<fixedVars, jsonl_file, batch_id_file, results_jsonl, output_csv, histVars>>

\* to_csv has written every row
ParCsvWrite ==
    /\ pc = "p_dl_csv"
    /\ results_csv' = [results_csv EXCEPT ![batch_num] = "full"]
    /\ pc' = "p_download"
    /\ batch_num' = batch_num + 1
    /\ UNCHANGED <<batch_ids, batch_id, status, all_done, remote>>
    /\ UNCHANGED <<fixedVars, jsonl_file, batch_id_file, results_jsonl, output_csv, histVars>>

ParDownloadDone ==
    /\ pc = "p_download" /\ batch_num > Len(batch_ids)
    /\ pc' = "p_merge"
    /\ UNCHANGED <<batch_num, batch_ids, batch_id, status, all_done, remote>>
    /\ UNCHANGED <<fixedVars, fileVars, histVars>>

\* ---- merge_all_results, and main returns
ParMerge ==
    /\ pc = "p_merge"
    /\ MergeAllResults
    /\ pc' = "done"
    /\ UNCHANGED <<batch_num, batch_ids, batch_id, status, all_done, remote>>
    /\ UNCHANGED <<fixedVars, jsonl_file, batch_id_file, results_jsonl, results_csv>>
    /\ UNCHANGED <<run, attempts, submit_raised, seen_completed, fetched,
                   prior_complete>>

\* the steps of the script other than a status poll that raises
ParAnswered ==
    \/ ParCreateSkip \/ ParCreateOpen \/ ParCreateWrite \/ ParCreateDone
    \/ ParUploadSkip \/ ParUploadFile \/ ParUploadFileRaise
    \/ ParBatchCreate \/ ParBatchCreateRaise
    \/ ParSaveIdOpen \/ ParSaveIdWrite \/ ParRecord \/ ParUploadDone
    \/ ParPollNoId \/ ParPoll \/ ParRoundEnd
    \/ ParDownloadNoId \/ ParDownloadSkip \/ ParDownloadRetrieve \/ ParDownloadRetrieveRaise
    \/ ParFetch \/ ParFetchRaise \/ ParSaveRaw \/ ParParse \/ ParCsvWrite \/ ParDownloadDone
    \/ ParMerge

ParProcess == ParAnswered \/ ParPollRaise

ParInit == OrchInit /\ mode = "parallel"

ParNext == ParProcess \/ Rerun

ParSpec == ParInit /\ [][ParNext]_vars

(***************************************************************************)
(* The sequential script (MTA_multi_batch_short_only.py): main drives one  *)
(* batch after the other through create_single_batch_file, upload_batch,   *)
(* check_single_batch_status and download_batch_results, removes the       *)
(* batch's payload file, and ends with merge_all_results.                  *)
(***************************************************************************)

\* ---- create_single_batch_file(batch_num, ...)
SeqCreateSkip ==
    /\ pc = "s_create"
    /\ Exists(jsonl_file[batch_num])
    /\ pc' = "s_upload"
    /\ UNCHANGED <<batch_num, batch_ids, batch_id, status, all_done, remote>>
    /\ UNCHANGED <<fixedVars, fileVars, histVars>>

SeqCreateOpen ==
    /\ pc = "s_create"
    /\ ~Exists(jsonl_file[batch_num])
    /\ jsonl_file' = [jsonl_file EXCEPT ![batch_num] = "partial"]
    /\ pc' = "s_create_write"
    /\ UNCHANGED <<batch_num, batch_ids, batch_id, status, all_done, remote>>
    /\ UNCHANGED <<fixedVars, batch_id_file, results_jsonl, results_csv, output_csv, histVars>>

SeqCreateWrite ==
    /\ pc = "s_create_write"
    /\ \E size \in {"full", "oversize"} :
          jsonl_file' = [jsonl_file EXCEPT ![batch_num] = size]
    /\ pc' = "s_upload"
    /\ UNCHANGED <<batch_num, batch_ids, batch_id, status, all_done, remote>>
    /\ UNCHANGED <<fixedVars, batch_id_file, results_jsonl, results_csv, output_csv, histVars>>

\* ---- upload_batch(batch_num); main: `if not batch_id: ... return`
\* upload_batch returned None: main prints "Exiting." and returns
SeqMainExits ==
    /\ pc' = "done"
    /\ batch_id' = None
    /\ UNCHANGED <<batch_num, batch_ids, status, all_done, remote>>

\* file_size_mb > MAX_FILE_SIZE_MB: return None, nothing is sent
SeqUploadTooLarge ==
    /\ pc = "s_upload"
    /\ jsonl_file[batch_num] = "oversize"
    /\ SeqMainExits
    /\ UNCHANGED <<fixedVars, fileVars, histVars>>

\* client.files.create returns
SeqUploadFile_AnySize ==
    /\ pc = "s_upload"
    /\ attempts' = [attempts EXCEPT ![batch_num] = @ + 1]
    /\ pc' = "s_batch_create"
    /\ UNCHANGED <<batch_num, batch_ids, batch_id, status, all_done, remote>>
    /\ UNCHANGED <<fixedVars, fileVars, run, submit_raised, seen_completed, fetched,
                   merge_called, prior_complete>>

SeqUploadFile ==
    /\ pc = "s_upload"
    /\ jsonl_file[batch_num] # "oversize"
    /\ attempts' = [attempts EXCEPT ![batch_num] = @ + 1]
    /\ pc' = "s_batch_create"
    /\ UNCHANGED <<batch_num, batch_ids, batch_id, status, all_done, remote>>
    /\ UNCHANGED <<fixedVars, fileVars, run, submit_raised, seen_completed, fetched,
                   merge_called, prior_complete>>

\* except Exception in upload_batch: return None
SeqUploadFailed ==
    /\ submit_raised' = [submit_raised EXCEPT ![batch_num] = TRUE]
    /\ SeqMainExits
    /\ UNCHANGED <<fixedVars, fileVars, run, seen_completed, fetched, merge_called,
                   prior_complete>>

\* client.files.create raises
SeqUploadFileRaise ==
    /\ pc = "s_upload"
    /\ jsonl_file[batch_num] # "oversize"
    /\ attempts' = [attempts EXCEPT ![batch_num] = @ + 1]
    /\ SeqUploadFailed

\* client.batches.create returns
SeqBatchCreate ==
    /\ pc = "s_batch_create"
    /\ remote' = Append(remote, [status |-> "validating", num |-> batch_num])
    /\ batch_id' = Len(remote) + 1
    /\ pc' = "s_save_id"
    /\ UNCHANGED <<batch_num, batch_ids, status, all_done>>
    /\ UNCHANGED <<fixedVars, fileVars, histVars>>

\* client.batches.create raises
SeqBatchCreateRaise ==
    /\ pc = "s_batch_create"
    /\ UNCHANGED attempts
    /\ SeqUploadFailed

\* open(batch_id_file, "w")
SeqSaveIdOpen ==
    /\ pc = "s_save_id"
    /\ batch_id_file' = [batch_id_file EXCEPT ![batch_num] = EmptyId]
    /\ pc' = "s_save_id_write"
    /\ UNCHANGED <<batch_num, batch_ids, batch_id, status, all_done, remote>>
    /\ UNCHANGED <<fixedVars, jsonl_file, results_jsonl, results_csv, output_csv, histVars>>

\* f.write(batch.id), the file is closed
SeqSaveIdWrite ==
    /\ pc = "s_save_id_write"
    /\ batch_id_file' = [batch_id_file EXCEPT ![batch_num] = batch_id]
    /\ pc' = "s_uploaded"
    /\ UNCHANGED <<batch_num, batch_ids, batch_id, status, all_done, remote>>
    /\ UNCHANGED <<fixedVars, jsonl_file, results_jsonl, results_csv, output_csv, histVars>>

\* return batch.id; main goes on to monitor the batch
SeqUploaded ==
    /\ pc = "s_uploaded"
    /\ pc' = "s_monitor"
    /\ UNCHANGED <<batch_num, batch_ids, batch_id, status, all_done, remote>>
    /\ UNCHANGED <<fixedVars, fileVars, histVars>>

\* main: `continue` / the end of the loop body; after the last batch, the merge
SeqNextBatch ==
    /\ batch_num' = batch_num + 1
    /\ pc' = IF batch_num = num_batches THEN "s_merge" ELSE "s_create"

\* ---- check_single_batch_status(batch_num)
\* the id is read from the id file; FileNotFoundError: return "failed"
SeqMonitorStart ==
    /\ pc = "s_monitor"
    /\ IF batch_id_file[batch_num] = NoFile
       THEN /\ status' = "failed"
            /\ batch_id' = None
            /\ SeqNextBatch
       ELSE /\ status' = ""
            /\ batch_id' = batch_id_file[batch_num]
            /\ pc' = "s_poll"
            /\ batch_num' = batch_num
    /\ UNCHANGED <<batch_ids, all_done, remote>>
    /\ UNCHANGED <<fixedVars, fileVars, histVars>>

\* the statuses check_single_batch_status returns on
SeqReturnsOn_CompletedOrFailed(s) == s \in {"completed", "failed"}

SeqReturnsOn_NotInProgress(s) == s # "in_progress"

SeqReturnsOn(s) == s \in {"completed", "failed", "expired", "cancelled"}

\* client.batches.retrieve(batch_id) returns: a terminal status is returned to main,
\* which downloads a completed batch and continues with the next one otherwise;
\* any other status: sleep 60 s and poll again
SeqPoll ==
    /\ pc = "s_poll"
    /\ ~Falsy(batch_id)
    /\ \E s \in StatusAfter(RemoteStatus(batch_id)) :
          /\ Retrieved(batch_id, s)
          /\ seen_completed' = [seen_completed EXCEPT ![batch_num] = @ \/ s = "completed"]
          /\ IF SeqReturnsOn(s)
             THEN /\ status' = s
                  /\ batch_id' = None
                  /\ IF s = "completed"
                     THEN pc' = "s_download" /\ batch_num' = batch_num
                     ELSE SeqNextBatch
             ELSE /\ status' = status
                  /\ batch_id' = batch_id
                  /\ pc' = "s_poll"
                  /\ batch_num' = batch_num
    /\ UNCHANGED <<batch_ids, all_done>>
    /\ UNCHANGED <<fixedVars, fileVars, run, attempts, submit_raised, fetched,
                   merge_called, prior_complete>>

\* client.batches.retrieve raises (always, for an empty id): sleep 60 s and poll again
SeqPollRaise ==
    /\ pc = "s_poll"
    /\ UNCHANGED <<pc, batch_num, batch_ids, batch_id, status, all_done, remote>>
    /\ UNCHANGED <<fixedVars, fileVars, run, attempts, submit_raised, seen_completed, fetched,
                   merge_called, prior_complete>>

\* ---- download_batch_results(batch_num)
\* every return of download_batch_results: main goes on to remove the payload file
SeqDownloadReturns ==
    /\ pc' = "s_cleanup"
    /\ batch_num' = batch_num

\* the id is read from the id file (FileNotFoundError: return); client.batches.retrieve
\* returns; a batch that is not completed, or has no output file: return
SeqDownloadRetrieve ==
    /\ pc = "s_download"
    /\ IF batch_id_file[batch_num] = NoFile
       THEN /\ SeqDownloadReturns
            /\ UNCHANGED <<seen_completed, remote>>
       ELSE \E has_output \in BOOLEAN,
               s \in StatusAfter(RemoteStatus(batch_id_file[batch_num])) :
                /\ Retrieved(batch_id_file[batch_num], s)
                /\ seen_completed' = [seen_completed EXCEPT ![batch_num] =
                                          @ \/ s = "completed"]
                /\ IF DownloadAdmits(s) /\ has_output
                   THEN pc' = "s_dl_fetch" /\ batch_num' = batch_num
                   ELSE SeqDownloadReturns
    /\ UNCHANGED <<batch_ids, batch_id, status, all_done>>
    /\ UNCHANGED <<fixedVars, fileVars, run, attempts, submit_raised, fetched,
                   merge_called, prior_complete>>

\* except Exception in download_batch_results
SeqDownloadFailed ==
    /\ SeqDownloadReturns
    /\ UNCHANGED <<batch_ids, batch_id, status, all_done, remote>>
    /\ UNCHANGED <<fixedVars, fileVars, run, attempts, submit_raised, seen_completed, fetched,
                   merge_called, prior_complete>>

\* client.batches.retrieve raises
SeqDownloadRetrieveRaise ==
    /\ pc = "s_download"
    /\ batch_id_file[batch_num] # NoFile
    /\ SeqDownloadFailed

\* client.files.content(output_file_id) returns
SeqFetch ==
    /\ pc = "s_dl_fetch"
    /\ fetched' = [fetched EXCEPT ![batch_num] = TRUE]
    /\ pc' = "s_dl_save"
    /\ UNCHANGED <<batch_num, batch_ids, batch_id, status, all_done, remote>>
    /\ UNCHANGED <<fixedVars, fileVars, run, attempts, submit_raised, seen_completed,
                   merge_called, prior_complete>>

\* client.files.content raises
SeqFetchRaise ==
    /\ pc = "s_dl_fetch"
    /\ SeqDownloadFailed

SeqSaveRaw ==
    /\ pc = "s_dl_save"
    /\ results_jsonl' = [results_jsonl EXCEPT ![batch_num] = "full"]
    /\ pc' = "s_dl_parse"
    /\ UNCHANGED <<batch_num, batch_ids, batch_id, status, all_done, remote>>
    /\ UNCHANGED <<fixedVars, jsonl_file, batch_id_file, results_csv, output_csv, histVars>>

\* the lines are parsed; `if parsed_results:` to_csv opens results_csv, else a warning
SeqParse ==
    /\ pc = "s_dl_parse"
    /\ \E any_valid \in BOOLEAN :
          IF any_valid
          THEN /\ results_csv' = [results_csv EXCEPT ![batch_num] = "partial"]
               /\ pc' = "s_dl_csv"
               /\ batch_num' = batch_num
          ELSE /\ results_csv' = results_csv
               /\ SeqDownloadReturns
    /\ UNCHANGED <<batch_ids, batch_id, status, all_done, remote>>
    /\ UNCHANGED <<fixedVars, jsonl_file, batch_id_file, results_jsonl, output_csv, histVars>>

SeqCsvWrite ==
    /\ pc = "s_dl_csv"
    /\ results_csv' = [results_csv EXCEPT ![batch_num] = "full"]
    /\ SeqDownloadReturns
    /\ UNCHANGED <<batch_ids, batch_id, status, all_done, remote>>
    /\ UNCHANGED <<fixedVars, jsonl_file, batch_id_file, results_jsonl, output_csv, histVars>>

\* ---- main: os.remove(jsonl_file) (a missing file is ignored), the next batch
SeqCleanup ==
    /\ pc = "s_cleanup"
    /\ jsonl_file' = [jsonl_file EXCEPT ![batch_num] = "absent"]
    /\ SeqNextBatch
    /\ status' = ""
    /\ UNCHANGED <<batch_ids, batch_id, all_done, remote>>
    /\ UNCHANGED <<fixedVars, batch_id_file, results_jsonl, results_csv, output_csv, histVars>>

\* ---- merge_all_results, and main returns
SeqMerge ==
    /\ pc = "s_merge"
    /\ MergeAllResults
    /\ pc' = "done"
    /\ UNCHANGED <<batch_num, batch_ids, batch_id, status, all_done, remote>>
    /\ UNCHANGED <<fixedVars, jsonl_file, batch_id_file, results_jsonl, results_csv>>
    /\ UNCHANGED <<run, attempts, submit_raised, seen_completed, fetched,
                   prior_complete>>

SeqProcess ==
    \/ SeqCreateSkip \/ SeqCreateOpen \/ SeqCreateWrite
    \/ SeqUploadTooLarge \/ SeqUploadFile \/ SeqUploadFileRaise
    \/ SeqBatchCreate \/ SeqBatchCreateRaise
    \/ SeqSaveIdOpen \/ SeqSaveIdWrite \/ SeqUploaded
    \/ SeqMonitorStart \/ SeqPoll \/ SeqPollRaise
    \/ SeqDownloadRetrieve \/ SeqDownloadRetrieveRaise
    \/ SeqFetch \/ SeqFetchRaise \/ SeqSaveRaw \/ SeqParse \/ SeqCsvWrite
    \/ SeqCleanup \/ SeqMerge

(***************************************************************************)
(* The parse loop of the download step (download_all_results lines 380-402, *)
(* download_batch_results lines 558-576 with parse_classification_result),  *)
(* over the lines of one fetched result file. A line is invalid JSON, JSON  *)
(* without response.body.choices[0].message.content, or a response whose    *)
(* content is a sequence of characters.                                     *)
(***************************************************************************)
Quote == "\""

Comma == ","

Space == " "

\* str.strip()
RECURSIVE StripLeft(_)
StripLeft(str) ==
    IF str # <<>> /\ Head(str) = Space THEN StripLeft(Tail(str)) ELSE str

RECURSIVE StripRight(_)
StripRight(str) ==
    IF str # <<>> /\ str[Len(str)] = Space THEN StripRight(SubSeq(str, 1, Len(str) - 1))
    ELSE str

Strip(str) == StripRight(StripLeft(str))

\* csv.reader (default dialect: delimiter ",", quotechar '"', doublequote, not
\* strict, skipinitialspace off) over the characters of one line, from
\* character i on, in reader state st, with the field being read and the fields
\* read so far
RECURSIVE CsvRead(_, _, _, _, _)
CsvRead(content, i, st, field, fields) ==
    IF i > Len(content) THEN Append(fields, field)
    ELSE LET c == content[i] IN
         CASE st = "start_field" ->
                  IF c = Quote THEN CsvRead(content, i + 1, "in_quoted_field", <<>>, fields)
                  ELSE IF c = Comma
                       THEN CsvRead(content, i + 1, "start_field", <<>>, Append(fields, <<>>))
                  ELSE CsvRead(content, i + 1, "in_field", <<c>>, fields)
           [] st = "in_field" ->
                  IF c = Comma
                  THEN CsvRead(content, i + 1, "start_field", <<>>, Append(fields, field))
                  ELSE CsvRead(content, i + 1, "in_field", Append(field, c), fields)
           [] st = "in_quoted_field" ->
                  IF c = Quote
                  THEN CsvRead(content, i + 1, "quote_in_quoted_field", field, fields)
                  ELSE CsvRead(content, i + 1, "in_quoted_field", Append(field, c), fields)
           [] st = "quote_in_quoted_field" ->
                  IF c = Quote
                  THEN CsvRead(content, i + 1, "in_quoted_field", Append(field, Quote), fields)
                  ELSE IF c = Comma
                       THEN CsvRead(content, i + 1, "start_field", <<>>, Append(fields, field))
                  ELSE CsvRead(content, i + 1, "in_field", Append(field, c), fields)

\* rows = list(csv.reader(io.StringIO(content.strip()))): no row for an empty text
CsvRows(content) ==
    IF Strip(content) = <<>> THEN <<>>
    ELSE <<CsvRead(Strip(content), 1, "start_field", <<>>, <<>>)>>

\* `len(rows[0]) >= 7` / `len(data_row) >= 7`
EnoughFields_MoreThanSeven(row) == Len(row) > 7

EnoughFields(row) == Len(row) >= 7

\* the record built from a row: CompanyID, CompanyName, AI_native, Confidence_1to5,
\* Reasons_3_points, Sources_used, Verification_critique = row[0..6], each stripped
Record_SourcesCritiqueSwapped(row) ==
    <<Strip(row[1]), Strip(row[2]), Strip(row[3]), Strip(row[4]), Strip(row[5]),
      Strip(row[7]), Strip(row[6])>>

Record(row) ==
    <<Strip(row[1]), Strip(row[2]), Strip(row[3]), Strip(row[4]), Strip(row[5]),
      Strip(row[6]), Strip(row[7])>>

\* the result parse_classification_result starts from: every field ''
BlankResult == <<<<>>, <<>>, <<>>, <<>>, <<>>, <<>>, <<>>>>

\* parse_classification_result(content)
ParseClassificationResult(content) ==
    IF CsvRows(content) # <<>> /\ EnoughFields(CsvRows(content)[1])
    THEN Record(CsvRows(content)[1])
    ELSE BlankResult

\* json.loads or the subscripting of the response raises
LineRaises(line) == line.kind # "response"

\* parallel script: the records one line adds to parsed_results
\* (`except: pass` for a line that raises)
ParLineRecords(line) ==
    IF LineRaises(line) THEN <<>>
    ELSE IF CsvRows(line.content) # <<>> /\ EnoughFields(CsvRows(line.content)[1])
         THEN <<Record(CsvRows(line.content)[1])>>
    ELSE <<>>

\* sequential script: `if parsed['CompanyID']: parsed_results.append(parsed)`
SeqLineRecords(line) ==
    IF LineRaises(line) THEN <<>>
    ELSE IF ParseClassificationResult(line.content)[1] # <<>>
         THEN <<ParseClassificationResult(line.content)>>
    ELSE <<>>

\* the table the whole loop of the parallel script builds from the lines
RECURSIVE ParTable(_)
ParTable(ls) ==
    IF ls = <<>> THEN <<>> ELSE ParLineRecords(Head(ls)) \o ParTable(Tail(ls))

\* the table the whole loop of the sequential script builds from the lines
RECURSIVE SeqTable(_)
SeqTable(ls) ==
    IF ls = <<>> THEN <<>> ELSE SeqLineRecords(Head(ls)) \o SeqTable(Tail(ls))

\* for line in f, parallel script
ParParseLine ==
    /\ pc = "parse" /\ mode = "parallel" /\ line_num <= Len(lines)
    /\ parsed_results' = parsed_results \o ParLineRecords(lines[line_num])
    /\ line_num' = line_num + 1
    /\ UNCHANGED <<pc, lines, warnings>>
    /\ UNCHANGED <<mode, num_batches, batch_num, config, total_startups, max_requests_per_batch,
                   startups_per_batch, batch_rows>>
    /\ UNCHANGED <<fileVars, histVars, remote, batch_ids, batch_id, status, all_done>>
    /\ UNCHANGED auxVars

\* for line in f, sequential script; a line that raises prints
\* "[WARNING] Failed to parse line"
SeqParseLine ==
    /\ pc = "parse" /\ mode = "sequential" /\ line_num <= Len(lines)
    /\ parsed_results' = parsed_results \o SeqLineRecords(lines[line_num])
    /\ warnings' = IF LineRaises(lines[line_num]) THEN warnings + 1 ELSE warnings
    /\ line_num' = line_num + 1
    /\ UNCHANGED <<pc, lines>>
    /\ UNCHANGED <<mode, num_batches, batch_num, config, total_startups, max_requests_per_batch,
                   startups_per_batch, batch_rows>>
    /\ UNCHANGED <<fileVars, histVars, remote, batch_ids, batch_id, status, all_done>>
    /\ UNCHANGED auxVars

\* the loop is through: `if parsed_results:` follows
ParseDone ==
    /\ pc = "parse" /\ line_num > Len(lines)
    /\ pc' = "parsed"
    /\ UNCHANGED <<fixedVars, batch_num>>
    /\ UNCHANGED <<fileVars, histVars, remote, batch_ids, batch_id, status, all_done>>

\* ---- the result files the parse loop is run on
\* field values: empty, plain, with blanks around, with a comma, with a quote
FieldValues ==
    {<<>>, <<"a">>, <<Space, "a", Space>>, <<"a", Comma, "b">>, <<"a", Quote, "b">>}

\* a row of n fields with the given identifier and rationale; the other fields
\* differ by position
FieldRow(n, id, rationale) ==
    [i \in 1..n |-> IF i = 1 THEN id
                    ELSE IF i = 5 THEN rationale
                    ELSE IF i <= 7 THEN <<<<"i", "n", "f", "c", "r", "s", "v">>[i]>>
                    ELSE <<"x">>]

\* rows of seven fields: every identifier with a plain rationale, every
\* rationale with a plain identifier
SevenFieldRows ==
    {FieldRow(7, id, <<"a">>) : id \in FieldValues}
        \cup {FieldRow(7, <<"a">>, rationale) : rationale \in FieldValues}

RECURSIVE DoubleQuotes(_)
DoubleQuotes(str) ==
    IF str = <<>> THEN <<>>
    ELSE (IF Head(str) = Quote THEN <<Quote, Quote>> ELSE <<Head(str)>>) \o DoubleQuotes(Tail(str))

\* the row written as one line of CSV with every field quoted
RECURSIVE Serialize(_)
Serialize(row) ==
    IF row = <<>> THEN <<>>
    ELSE <<Quote>> \o DoubleQuotes(Head(row)) \o <<Quote>>
             \o (IF Len(row) = 1 THEN <<>> ELSE <<Comma>> \o Serialize(Tail(row)))

Contents ==
    {Serialize(row) : row \in SevenFieldRows}
        \cup {Serialize(FieldRow(n, <<"a">>, <<"a">>)) : n \in 6..MaxFields}
        \cup {<<>>, <<Space>>, <<"a", Comma, "b">>}

Lines ==
    {[kind |-> "invalid_json", content |-> <<>>], [kind |-> "no_envelope", content |-> <<>>]}
        \cup {[kind |-> "response", content |-> c] : c \in Contents}

ParseInit ==
    /\ mode \in {"parallel", "sequential"}
    /\ lines \in UNION {[1..n -> Lines] : n \in 0..MaxLines}
    /\ line_num = 1
    /\ parsed_results = <<>>
    /\ warnings = 0
    /\ MergeIdle
    /\ pc = "parse"
    /\ config = [MAX_FILE_SIZE_MB |-> MAX_FILE_SIZE_MB,
                 estimated_kb_per_request |-> ESTIMATED_KB_PER_REQUEST,
                 MAX_REQUESTS_PER_BATCH |-> MAX_REQUESTS_PER_BATCH,
                 MAX_ENQUEUED_TOKENS_PER_DAY |-> MAX_ENQUEUED_TOKENS_PER_DAY]
    /\ total_startups = 0 /\ max_requests_per_batch = 0 /\ startups_per_batch = 0
    /\ num_batches = 1 /\ batch_num = 1 /\ batch_rows = <<>>
    /\ jsonl_file = <<>> /\ batch_id_file = <<>> /\ results_jsonl = <<>> /\ results_csv = <<>>
    /\ output_csv = [exists |-> FALSE, batches |-> <<>>]
    /\ remote = <<>> /\ batch_ids = <<>> /\ batch_id = None /\ status = "completed"
    /\ all_done = TRUE
    /\ run = 1 /\ attempts = <<>> /\ submit_raised = <<>>
    /\ seen_completed = <<>> /\ fetched = <<>> /\ merge_called = FALSE
    /\ prior_complete = FALSE

ParseNext == ParParseLine \/ SeqParseLine \/ ParseDone

ParseSpec == ParseInit /\ [][ParseNext]_vars

(***************************************************************************)
(* merge_all_results and the end of main, over a directory of batch tables. *)
(* A character is its code point, a file name the sequence of them; a row   *)
(* of a table is <<batch number, row number>>; a printed message is         *)
(* <<what, label, number>>.                                                 *)
(***************************************************************************)
\* str(n)
RECURSIVE DigitCodes(_)
DigitCodes(n) ==
    IF n < 10 THEN <<48 + n>> ELSE Append(DigitCodes(n \div 10), 48 + (n % 10))

\* "batch_files/batch_outputs" joined with "batch_<n>_output.csv"
OutputPath(n) ==
    <<98, 97, 116, 99, 104, 95, 102, 105, 108, 101, 115, 47,
      98, 97, 116, 99, 104, 95, 111, 117, 116, 112, 117, 116, 115, 47,
      98, 97, 116, 99, 104, 95>>
        \o DigitCodes(n)
        \o <<95, 111, 117, 116, 112, 117, 116, 46, 99, 115, 118>>

\* str < str: by code point from the first character that differs (character i
\* on), a proper prefix first
RECURSIVE StrLessFrom(_, _, _)
StrLessFrom(str1, str2, i) ==
    IF i > Len(str1) THEN i <= Len(str2)
    ELSE IF i > Len(str2) THEN FALSE
    ELSE IF str1[i] # str2[i] THEN str1[i] < str2[i]
    ELSE StrLessFrom(str1, str2, i + 1)

StrLess(str1, str2) == StrLessFrom(str1, str2, 1)

\* sorted([... for f in os.listdir(...) ...]): the batch numbers of the set, in
\* the order of their paths
\* the comparison sorted makes between the paths of two batches
PathBefore ==
    [b \in 1..MaxMergeBatches, c \in 1..MaxMergeBatches |->
        StrLess(OutputPath(b), OutputPath(c))]

RECURSIVE InsertFile(_, _)
InsertFile(b, sorted) ==
    IF sorted = <<>> THEN <<b>>
    ELSE IF PathBefore[b, Head(sorted)] THEN <<b>> \o sorted
    ELSE <<Head(sorted)>> \o InsertFile(b, Tail(sorted))

RECURSIVE SortedFiles(_)
SortedFiles(found) ==
    IF found = {} THEN <<>>
    ELSE LET b == CHOOSE x \in found : TRUE
         IN  InsertFile(b, SortedFiles(found \ {b}))

\* str.split('_'): the pieces of the string between the underscores
RECURSIVE SplitUnderscore(_, _, _)
SplitUnderscore(str, i, piece) ==
    IF i > Len(str) THEN <<piece>>
    ELSE IF str[i] = 95 THEN <<piece>> \o SplitUnderscore(str, i + 1, <<>>)
    ELSE SplitUnderscore(str, i + 1, Append(piece, str[i]))

\* the label of a loaded table in the message: the parallel script prints
\* batch_file.split('_')[1], the sequential one the path
LoadedLabel(b) ==
    IF mode = "parallel" THEN SplitUnderscore(OutputPath(b), 1, <<>>)[2] ELSE OutputPath(b)

\* the batch_files of merge_all_results
BatchFiles == SortedFiles({b \in Batches : Exists(results_csv[b])})

\* all_results when pd.read_csv raises for the tables in unreadable
RECURSIVE AllResults(_, _)
AllResults(files, unreadable) ==
    IF files = <<>> THEN <<>>
    ELSE (IF Head(files) \in unreadable THEN <<>> ELSE <<Head(files)>>)
             \o AllResults(Tail(files), unreadable)

\* pd.concat(all_results, ignore_index=True)
RECURSIVE Concat(_)
Concat(loaded) ==
    IF loaded = <<>> THEN <<>> ELSE batch_tables[Head(loaded)] \o Concat(Tail(loaded))

\* the messages of the loading loop
RECURSIVE LoadMessages(_, _)
LoadMessages(files, unreadable) ==
    IF files = <<>> THEN <<>>
    ELSE <<IF Head(files) \in unreadable THEN <<"load_error", OutputPath(Head(files)), 0>>
           ELSE <<"loaded", LoadedLabel(Head(files)), Len(batch_tables[Head(files)])>> >>
             \o LoadMessages(Tail(files), unreadable)

\* what is left of the state
mergeOther == <<mode, num_batches, batch_num, config, total_startups, max_requests_per_batch,
                startups_per_batch, batch_rows, parseVars, jsonl_file, batch_id_file,
                results_jsonl, results_csv, remote, batch_ids, batch_id, status, all_done,
                run, attempts, submit_raised, seen_completed, fetched, prior_complete,
                batch_tables, startVars, compareVars, prepVars, failed, yearVars,
                totals>>

\* `if not batch_files: print("[ERROR] No batch output files found!"); return`
MergeNoFiles ==
    /\ pc = "m_merge" /\ BatchFiles = <<>>
    /\ printed' = Append(printed, <<"no_files", <<>>, 0>>)
    /\ merge_called' = TRUE
    /\ merge_result' = <<None>>
    /\ pc' = "m_return"
    /\ UNCHANGED <<mergeOther, output_csv, final_df>>

\* the tables are loaded, concatenated and written; a table whose writing was
\* cut short may make pd.read_csv raise, which is printed and skipped
MergeLoad ==
    /\ pc = "m_merge" /\ BatchFiles # <<>>
    /\ \E unreadable \in SUBSET {b \in Batches : results_csv[b] = "partial"} :
          LET batch_files == BatchFiles
              all_results == AllResults(batch_files, unreadable)
              found == IF mode = "sequential" THEN <<<<"found", <<>>, Len(batch_files)>>>>
                       ELSE <<>>
          IN  /\ final_df' = IF all_results # <<>> THEN Concat(all_results) ELSE final_df
              /\ output_csv' = IF all_results # <<>>
                               THEN [exists |-> TRUE, batches |-> all_results]
                               ELSE output_csv
              /\ printed' = printed \o found \o LoadMessages(batch_files, unreadable)
                               \o (IF all_results # <<>>
                                   THEN <<<<"success", <<>>, 0>>,
                                          <<"total_rows", <<>>, Len(Concat(all_results))>>>>
                                   ELSE IF mode = "sequential"
                                        THEN <<<<"no_results", <<>>, 0>>>>
                                   ELSE <<>>)
    /\ merge_called' = TRUE
    /\ merge_result' = <<None>>
    /\ pc' = "m_return"
    /\ UNCHANGED mergeOther

\* merge_all_results returned (None on every path); main prints its closing
\* banner "... COMPLETE!" and ends
MainComplete ==
    /\ pc = "m_return"
    /\ printed' = Append(printed, <<"complete", <<>>, 0>>)
    /\ pc' = "done"
    /\ UNCHANGED <<mergeOther, output_csv, final_df, merge_called, merge_result>>

\* the rows of the table of batch b when it was written whole
TableRows(b, per_batch, n) ==
    [i \in 1..(IF b = n THEN per_batch + 1 ELSE per_batch) |-> <<b, i>>]

MergeInit ==
    /\ mode \in {"parallel", "sequential"}
    /\ num_batches \in 1..MaxMergeBatches
    /\ startups_per_batch \in 1..MaxTableRows
    /\ results_csv \in [1..num_batches -> {"absent", "partial", "full"}]
    /\ Cardinality({b \in 1..num_batches : results_csv[b] = "partial"}) <= MaxPartial
    /\ batch_tables =
          [b \in 1..num_batches |->
              IF results_csv[b] = "full" THEN TableRows(b, startups_per_batch, num_batches)
              ELSE IF results_csv[b] = "partial"
                   THEN SubSeq(TableRows(b, startups_per_batch, num_batches), 1,
                               startups_per_batch - 1)
              ELSE <<>>]
    /\ final_df = <<>>
    /\ printed = <<>>
    /\ merge_result = <<>>
    /\ StartIdle
    /\ output_csv = [exists |-> FALSE, batches |-> <<>>]
    /\ pc = "m_merge"
    /\ config = [MAX_FILE_SIZE_MB |-> MAX_FILE_SIZE_MB,
                 estimated_kb_per_request |-> ESTIMATED_KB_PER_REQUEST,
                 MAX_REQUESTS_PER_BATCH |-> MAX_REQUESTS_PER_BATCH,
                 MAX_ENQUEUED_TOKENS_PER_DAY |-> MAX_ENQUEUED_TOKENS_PER_DAY]
    /\ total_startups = 0 /\ max_requests_per_batch = 0
    /\ batch_num = 1 /\ batch_rows = <<>>
    /\ jsonl_file = <<>> /\ batch_id_file = <<>> /\ results_jsonl = <<>>
    /\ remote = <<>> /\ batch_ids = <<>> /\ batch_id = None /\ status = "completed"
    /\ all_done = TRUE
    /\ run = 1 /\ attempts = <<>> /\ submit_raised = <<>>
    /\ seen_completed = <<>> /\ fetched = <<>> /\ merge_called = FALSE
    /\ prior_complete = FALSE
    /\ lines = <<>> /\ line_num = 0 /\ parsed_results = <<>> /\ warnings = 0

MergeNext == MergeNoFiles \/ MergeLoad \/ MainComplete

MergeSpec == MergeInit /\ [][MergeNext]_vars

(***************************************************************************)
(* A fully successful run, record by record: every batch is built with one  *)
(* request per row of its range, the service answers every request with one *)
(* response line carrying a row of seven fields, and the parse loop of the  *)
(* script (ParParseLine, SeqParseLine, ParseDone) builds the batch table.   *)
(***************************************************************************)
\* the response lines of such a run
ResponseLines == {[kind |-> "response", content |-> Serialize(row)] : row \in SevenFieldRows}

\* what these steps leave alone
runOther == <<mode, config, total_startups, max_requests_per_batch, num_batches,
              startups_per_batch, jsonl_file, batch_id_file, results_jsonl, results_csv,
              output_csv, remote, batch_ids, batch_id, status, all_done, histVars,
              final_df, printed, merge_result, startVars, compareVars, prepVars, failed,
              yearVars, totals>>

\* the payload of batch batch_num: `for idx, row in batch_df.iterrows()` writes
\* one request for every row of df.iloc[start_idx:end_idx]
RunCreate ==
    /\ pc = "r_create" /\ batch_num <= num_batches
    /\ batch_rows' = Append(batch_rows,
           Iloc(StartIdx(batch_num, startups_per_batch),
                EndIdx(batch_num, num_batches, startups_per_batch, total_startups),
                total_startups))
    /\ pc' = "r_fetch"
    /\ UNCHANGED <<runOther, batch_num, parseVars, batch_tables>>

\* the batch completed; client.files.content gives one line per request, which
\* is written to results_jsonl and read back line by line
RunFetch ==
    /\ pc = "r_fetch"
    /\ lines' \in [1..BatchLen(batch_rows[batch_num]) -> ResponseLines]
    /\ line_num' = 1
    /\ parsed_results' = <<>>
    /\ pc' = "parse"
    /\ UNCHANGED <<runOther, batch_num, batch_rows, warnings, batch_tables>>

\* `if parsed_results:` the records are written as the batch table; the next
\* batch follows
RunSave ==
    /\ pc = "parsed"
    /\ batch_tables' = Append(batch_tables, parsed_results)
    /\ batch_num' = batch_num + 1
    /\ pc' = IF batch_num < num_batches THEN "r_create" ELSE "done"
    /\ UNCHANGED <<runOther, batch_rows, parseVars>>

RunInit ==
    /\ mode \in {"parallel", "sequential"}
    /\ total_startups \in 1..MaxRunN
    /\ max_requests_per_batch \in 1..MaxRunN
    /\ num_batches = NumBatches(total_startups, max_requests_per_batch)
    /\ startups_per_batch = StartupsPerBatch(total_startups, num_batches)
    /\ batch_num = 1
    /\ batch_rows = <<>>
    /\ pc = "r_create"
    /\ config = [MAX_FILE_SIZE_MB |-> MAX_FILE_SIZE_MB,
                 estimated_kb_per_request |-> ESTIMATED_KB_PER_REQUEST,
                 MAX_REQUESTS_PER_BATCH |-> MAX_REQUESTS_PER_BATCH,
                 MAX_ENQUEUED_TOKENS_PER_DAY |-> MAX_ENQUEUED_TOKENS_PER_DAY]
    /\ jsonl_file = <<>> /\ batch_id_file = <<>> /\ results_jsonl = <<>> /\ results_csv = <<>>
    /\ output_csv = [exists |-> FALSE, batches |-> <<>>]
    /\ remote = <<>> /\ batch_ids = <<>> /\ batch_id = None /\ status = "completed"
    /\ all_done = TRUE
    /\ run = 1 /\ attempts = <<>> /\ submit_raised = <<>>
    /\ seen_completed = <<>> /\ fetched = <<>> /\ merge_called = FALSE
    /\ prior_complete = FALSE
    /\ lines = <<>> /\ line_num = 0 /\ parsed_results = <<>> /\ warnings = 0
    /\ MergeIdle

RunNext == RunCreate \/ RunFetch \/ ParParseLine \/ SeqParseLine \/ ParseDone \/ RunSave

RunSpec == RunInit /\ [][RunNext]_vars

(***************************************************************************)
(* The start of the three entry scripts, up to their first call to the      *)
(* remote service: the two pipeline scripts and                             *)
(* helper_scripts/check_all_batches_status.py (mode "status_check").        *)
(***************************************************************************)
\* the states a script can be started in: api_key.txt is missing, holds no key
\* (only comments or empty lines) or holds a key; OPENAI_API_KEY is set or not;
\* the input dataset, the system prompt file and batch id files exist or not
Environments ==
    [key_file : {"missing", "no_key", "key"}, OPENAI_API_KEY : BOOLEAN,
     input_csv : BOOLEAN, system_prompt : BOOLEAN, id_files : BOOLEAN]

\* what these steps leave alone
startOther == <<mode, num_batches, batch_num, config, total_startups, max_requests_per_batch,
                startups_per_batch, batch_rows, parseVars, mergeVars, fileVars, histVars,
                remote, batch_ids, batch_id, status, all_done, environment, compareVars,
                prepVars, failed, yearVars,
                totals>>

\* `with open("../api_key.txt")`: a missing file raises; api_key is the first
\* line that is neither empty nor a comment, None without one
ReadKeyFile ==
    /\ pc = "st_key"
    /\ IF environment.key_file = "missing"
       THEN pc' = "fatal" /\ UNCHANGED api_key
       ELSE /\ api_key' = IF environment.key_file = "key" THEN "key" ELSE "None"
            /\ pc' = "st_key_check"
    /\ UNCHANGED <<startOther, remote_called>>

\* `if not api_key: raise ValueError(...)`: in the two pipeline scripts only
CheckKey ==
    /\ pc = "st_key_check"
    /\ pc' = IF mode # "status_check" /\ api_key = "None" THEN "fatal" ELSE "st_client"
    /\ UNCHANGED <<startOther, api_key, remote_called>>

\* client = OpenAI(api_key=api_key): with None the library takes the key from
\* OPENAI_API_KEY and raises when that is not set either; no call is made
MakeClient ==
    /\ pc = "st_client"
    /\ pc' = IF api_key = "None" /\ ~environment.OPENAI_API_KEY THEN "fatal"
             ELSE IF mode = "status_check" THEN "st_id_files"
             ELSE "st_input"
    /\ UNCHANGED <<startOther, api_key, remote_called>>

\* calculate_batch_sizes: pd.read_csv(INPUT_CSV) raises when the file is missing
ReadInput ==
    /\ pc = "st_input"
    /\ pc' = IF environment.input_csv THEN "st_prompt" ELSE "fatal"
    /\ UNCHANGED <<startOther, api_key, remote_called>>

\* create_all_batch_files / create_single_batch_file open SYSTEM_PROMPT_FILE
\* first of all
ReadPrompt ==
    /\ pc = "st_prompt"
    /\ pc' = IF environment.system_prompt THEN "st_submit" ELSE "fatal"
    /\ UNCHANGED <<startOther, api_key, remote_called>>

\* the first submission: client.files.create
FirstSubmit ==
    /\ pc = "st_submit"
    /\ remote_called' = TRUE
    /\ pc' = "running"
    /\ UNCHANGED <<startOther, api_key>>

\* the status check lists the id files: exit(1) without the directory, exit(0)
\* without a file
ListIdFiles ==
    /\ pc = "st_id_files"
    /\ pc' = IF environment.id_files THEN "st_retrieve" ELSE "exited"
    /\ UNCHANGED <<startOther, api_key, remote_called>>

\* client.batches.retrieve for the first id file
FirstRetrieve ==
    /\ pc = "st_retrieve"
    /\ remote_called' = TRUE
    /\ pc' = "running"
    /\ UNCHANGED <<startOther, api_key>>

StartInit ==
    /\ mode \in {"parallel", "sequential", "status_check"}
    /\ environment \in Environments
    /\ api_key = ""
    /\ remote_called = FALSE
    /\ pc = "st_key"
    /\ config = [MAX_FILE_SIZE_MB |-> MAX_FILE_SIZE_MB,
                 estimated_kb_per_request |-> ESTIMATED_KB_PER_REQUEST,
                 MAX_REQUESTS_PER_BATCH |-> MAX_REQUESTS_PER_BATCH,
                 MAX_ENQUEUED_TOKENS_PER_DAY |-> MAX_ENQUEUED_TOKENS_PER_DAY]
    /\ total_startups = 0 /\ max_requests_per_batch = 0 /\ startups_per_batch = 0
    /\ num_batches = 0 /\ batch_num = 0 /\ batch_rows = <<>>
    /\ jsonl_file = <<>> /\ batch_id_file = <<>> /\ results_jsonl = <<>> /\ results_csv = <<>>
    /\ output_csv = [exists |-> FALSE, batches |-> <<>>]
    /\ remote = <<>> /\ batch_ids = <<>> /\ batch_id = None /\ status = "" /\ all_done = TRUE
    /\ run = 1 /\ attempts = <<>> /\ submit_raised = <<>>
    /\ seen_completed = <<>> /\ fetched = <<>> /\ merge_called = FALSE
    /\ prior_complete = FALSE
    /\ lines = <<>> /\ line_num = 0 /\ parsed_results = <<>> /\ warnings = 0
    /\ batch_tables = <<>> /\ final_df = <<>> /\ printed = <<>> /\ merge_result = <<>>
    /\ CompareIdle

StartNext ==
    \/ ReadKeyFile \/ CheckKey \/ MakeClient \/ ReadInput \/ ReadPrompt \/ FirstSubmit
    \/ ListIdFiles \/ FirstRetrieve

StartSpec == StartInit /\ [][StartNext]_vars

(***************************************************************************)
(* analysis/compare_classifications.py: the comparison of two result       *)
(* tables.  A table is a function from the identifiers of its rows to      *)
(* their cells (identifiers are unique in a table, rows are in identifier   *)
(* order); cells are the strings read_csv yields, "" for an empty cell.     *)
(***************************************************************************)
\* pd.to_numeric(errors='coerce'): a numeral is its number, anything else NaN
ToNumeric(cell) == IF cell \in {"0", "1", "2", "3", "4", "5"} THEN cell ELSE "NaN"

\* == on two numeric columns: NaN equals nothing, not even NaN
NumEq(a, b) == a # "NaN" /\ b # "NaN" /\ a = b

\* Series.isin(both_desc_uuids) on the first table, then pd.merge(on='CompanyID')
\* with the default how='inner': the identifiers of the joined rows
MergedIds_LeftJoin(week9, week10, uuids) == {id \in DOMAIN week9 : id \in uuids}

MergedIds(week9, week10, uuids) ==
    {id \in DOMAIN week9 : id \in uuids} \cap DOMAIN week10

\* the cells of a row the right table does not have (how='left' only)
CellsOf(table, id) == IF id \in DOMAIN table THEN table[id] ELSE [flag |-> "", conf |-> ""]

\* the joined rows in the order of the left table, the flag and confidence
\* columns of both sides coerced to numbers
RECURSIVE MergedRows(_, _, _)
MergedRows(week9, week10, ids) ==
    IF ids = {} THEN <<>>
    ELSE LET id == CHOOSE x \in ids : \A y \in ids : x <= y
         IN  <<[CompanyID |-> id,
                AI_native_week9_both |-> ToNumeric(week9[id].flag),
                Confidence_1to5_week9_both |-> ToNumeric(week9[id].conf),
                AI_native_week10_short |-> ToNumeric(CellsOf(week10, id).flag),
                Confidence_1to5_week10_short |-> ToNumeric(CellsOf(week10, id).conf)]>>
             \o MergedRows(week9, week10, ids \ {id})

\* Series.sum() of a boolean column of the joined rows
CountRows(rows, Test(_)) == Cardinality({i \in 1..Len(rows) : Test(rows[i])})

\* count / total * 100 as the script prints it with two decimals, in
\* hundredths of a percent; numpy yields nan for a division by zero
Percent(count, total) ==
    IF total = 0 THEN [nan |-> TRUE, hundredths |-> 0]
    ELSE [nan |-> FALSE, hundredths |-> (20000 * count + total) \div (2 * total)]

\* agreement = (AI_native_week9_both == AI_native_week10_short)
Agreement(row) == NumEq(row.AI_native_week9_both, row.AI_native_week10_short)

compareOther ==
    <<mode, num_batches, batch_num, config, total_startups, max_requests_per_batch,
      startups_per_batch, batch_rows, parseVars, mergeVars, startVars, prepVars, fileVars,
      histVars, remote, batch_ids, batch_id, status, all_done, failed, yearVars, totals>>

\* sections 2 and 3: filter the first table, join, coerce
CmpMerge ==
    /\ pc = "c_merge"
    /\ df_merged' = MergedRows(df_week9_full, df_week10_short,
                               MergedIds(df_week9_full, df_week10_short, both_desc_uuids))
    /\ pc' = "c_metrics"
    /\ UNCHANGED <<df_week9_full, df_week10_short, both_desc_uuids, metrics, compareOther>>

\* df_disagree = df_merged[~agreement]
Disagree(rows) == SelectSeq(rows, LAMBDA row : ~Agreement(row))

Week9AI(row) == row.AI_native_week9_both = "1"

Week10AI(row) == row.AI_native_week10_short = "1"

BothNotShortAI(row) == row.AI_native_week9_both = "0" /\ row.AI_native_week10_short = "1"

BothAIShortNot(row) == row.AI_native_week9_both = "1" /\ row.AI_native_week10_short = "0"

\* sections 3 to 7: the agreement metrics, the classification rates and the
\* disagreement analysis, every rate over the number of rows it is taken of
CmpMetrics ==
    /\ pc = "c_metrics"
    /\ LET total == Len(df_merged)
           df_disagree == Disagree(df_merged)
       IN  metrics' =
               [total |-> total,
                agreements |-> CountRows(df_merged, Agreement),
                agreement_rate |-> Percent(CountRows(df_merged, Agreement), total),
                disagreements |-> CountRows(df_merged, LAMBDA row : ~Agreement(row)),
                week9_ai |-> CountRows(df_merged, Week9AI),
                week10_ai |-> CountRows(df_merged, Week10AI),
                week9_ai_rate |-> Percent(CountRows(df_merged, Week9AI), total),
                week10_ai_rate |-> Percent(CountRows(df_merged, Week10AI), total),
                df_disagree |-> df_disagree,
                both_not_short_ai |-> CountRows(df_disagree, BothNotShortAI),
                both_ai_short_not |-> CountRows(df_disagree, BothAIShortNot)]
    /\ pc' = "done"
    /\ UNCHANGED <<df_week9_full, df_week10_short, both_desc_uuids, df_merged, compareOther>>

\* the inputs: every pair of tables over a few identifiers, the flag of the
\* first table a numeral or empty, the flag and the confidence of the second a
\* numeral or text; the dataset lists every identifier or all but the last
CmpIds == 1..MaxCmpIds

Week9Cells == [flag : {"0", "1", ""}, conf : {"4"}]

Week10Cells == [flag : {"0", "1", "x"}, conf : {"3", "x"}]

TablesOver(cells) == UNION {[ids -> cells] : ids \in SUBSET CmpIds}

\* the reference input: two tables sharing 100 identifiers, 5 flags differing
ReferenceIds == 1..100

ReferenceWeek9 == [id \in ReferenceIds |-> [flag |-> "1", conf |-> "4"]]

ReferenceWeek10 ==
    [id \in ReferenceIds |-> [flag |-> IF id <= 5 THEN "0" ELSE "1", conf |-> "3"]]

CompareInit ==
    /\ mode = "compare"
    /\ pc = "c_merge"
    /\ \/ /\ df_week9_full \in TablesOver(Week9Cells)
          /\ df_week10_short \in TablesOver(Week10Cells)
          /\ both_desc_uuids \in {CmpIds, CmpIds \ {MaxCmpIds}}
       \/ /\ df_week9_full = ReferenceWeek9
          /\ df_week10_short = ReferenceWeek10
          /\ both_desc_uuids = ReferenceIds
    /\ df_merged = <<>> /\ metrics = <<>>
    /\ config = <<>>
    /\ total_startups = 0 /\ max_requests_per_batch = 0 /\ startups_per_batch = 0
    /\ num_batches = 0 /\ batch_num = 0 /\ batch_rows = <<>>
    /\ jsonl_file = <<>> /\ batch_id_file = <<>> /\ results_jsonl = <<>> /\ results_csv = <<>>
    /\ output_csv = [exists |-> FALSE, batches |-> <<>>]
    /\ remote = <<>> /\ batch_ids = <<>> /\ batch_id = None /\ status = "" /\ all_done = TRUE
    /\ run = 1 /\ attempts = <<>> /\ submit_raised = <<>>
    /\ seen_completed = <<>> /\ fetched = <<>> /\ merge_called = FALSE
    /\ prior_complete = FALSE
    /\ lines = <<>> /\ line_num = 0 /\ parsed_results = <<>> /\ warnings = 0
    /\ batch_tables = <<>> /\ final_df = <<>> /\ printed = <<>> /\ merge_result = <<>>
    /\ environment = <<>> /\ api_key = "" /\ remote_called = FALSE
    /\ PrepIdle

CompareNext == CmpMerge \/ CmpMetrics

CompareSpec == CompareInit /\ [][CompareNext]_vars

(***************************************************************************)
(* prepare_dataset.py: the dataset filter.  A cell of the file is its text, *)
(* a sequence of characters; a row is its position in the file and its two *)
(* description cells.                                                      *)
(***************************************************************************)
\* the missing value of pandas
NaN == <<"NaN">>

\* pd.read_csv, default na_values and keep_default_na: an empty cell and the
\* texts of the default list ("NA" stands for them) are read as NaN
ReadCell(text) == IF text \in {<<>>, <<"N", "A">>} THEN NaN ELSE text

ReadRow(row) ==
    [id |-> row.id,
     short_description |-> ReadCell(row.short_description),
     long_description |-> ReadCell(row.long_description)]

\* the dtype read_csv infers for a description column: float64 when the
\* column has rows and every one is NaN, object otherwise; Series.str of a
\* column that is not object raises AttributeError
StrRaises(frame, Column(_)) ==
    Len(frame) > 0 /\ \A i \in 1..Len(frame) : Column(frame[i]) = NaN

\* (~col.isna()) & (col.str.strip() != ''); str.strip() of NaN is NaN
HasText(cell) == cell # NaN /\ (Strip(cell) # <<>>)

\* has_short & has_long
HasBoth(row) == HasText(row.short_description) /\ HasText(row.long_description)

\* DataFrame.to_csv(index=False): NaN is written as an empty cell
WriteCell(cell) == IF cell = NaN THEN <<>> ELSE cell

WriteRow(row) ==
    [id |-> row.id,
     short_description |-> WriteCell(row.short_description),
     long_description |-> WriteCell(row.long_description)]

prepOther ==
    <<mode, num_batches, batch_num, config, total_startups, max_requests_per_batch,
      startups_per_batch, batch_rows, parseVars, mergeVars, startVars, compareVars, fileVars,
      histVars, remote, batch_ids, batch_id, status, all_done, failed, yearVars, totals>>

\* df = pd.read_csv(INPUT_CSV)
PrepLoad ==
    /\ pc = "f_load"
    /\ df' = [i \in 1..Len(INPUT_CSV) |-> ReadRow(INPUT_CSV[i])]
    /\ pc' = "f_filter"
    /\ UNCHANGED <<INPUT_CSV, df_both, OUTPUT_CSV, prepOther>>

\* has_short, has_long and df_both = df[has_short & has_long]; the script
\* ends with the AttributeError of .str on a column that holds no text
PrepFilter ==
    /\ pc = "f_filter"
    /\ IF \/ StrRaises(df, LAMBDA row : row.short_description)
          \/ StrRaises(df, LAMBDA row : row.long_description)
       THEN pc' = "raised" /\ df_both' = df_both
       ELSE pc' = "f_save" /\ df_both' = SelectSeq(df, HasBoth)
    /\ UNCHANGED <<INPUT_CSV, df, OUTPUT_CSV, prepOther>>

\* df_both.to_csv(OUTPUT_CSV, index=False)
PrepSave ==
    /\ pc = "f_save"
    /\ OUTPUT_CSV' = [exists |-> TRUE,
                      rows |-> [i \in 1..Len(df_both) |-> WriteRow(df_both[i])]]
    /\ pc' = "f_summary"
    /\ UNCHANGED <<INPUT_CSV, df, df_both, prepOther>>

\* the summary: len(df_both)/len(df) raises ZeroDivisionError for no rows
PrepSummary ==
    /\ pc = "f_summary"
    /\ pc' = IF Len(df) = 0 THEN "raised" ELSE "done"
    /\ UNCHANGED <<prepVars, prepOther>>

\* the description cells of the raw dataset: empty, blank, text, text with
\* spaces around it, text of the default NaN list
RawCells == {<<>>, <<" ">>, <<"a">>, <<" ", "a", " ">>, <<"N", "A">>}

RawDatasets ==
    UNION {[1..n -> [short_description : RawCells, long_description : RawCells]] :
           n \in 0..MaxRawRows}

PrepInit ==
    /\ mode = "prepare"
    /\ pc = "f_load"
    /\ \E raw \in RawDatasets :
          INPUT_CSV = [i \in 1..Len(raw) |->
                          [id |-> i, short_description |-> raw[i].short_description,
                           long_description |-> raw[i].long_description]]
    /\ df = <<>> /\ df_both = <<>> /\ OUTPUT_CSV = [exists |-> FALSE, rows |-> <<>>]
    /\ failed = 0
    /\ founded_date = <<>> /\ year_founded = <<>>
    /\ totals = <<>>
    /\ config = <<>>
    /\ total_startups = 0 /\ max_requests_per_batch = 0 /\ startups_per_batch = 0
    /\ num_batches = 0 /\ batch_num = 0 /\ batch_rows = <<>>
    /\ jsonl_file = <<>> /\ batch_id_file = <<>> /\ results_jsonl = <<>> /\ results_csv = <<>>
    /\ output_csv = [exists |-> FALSE, batches |-> <<>>]
    /\ remote = <<>> /\ batch_ids = <<>> /\ batch_id = None /\ status = "" /\ all_done = TRUE
    /\ run = 1 /\ attempts = <<>> /\ submit_raised = <<>>
    /\ seen_completed = <<>> /\ fetched = <<>> /\ merge_called = FALSE
    /\ prior_complete = FALSE
    /\ lines = <<>> /\ line_num = 0 /\ parsed_results = <<>> /\ warnings = 0
    /\ batch_tables = <<>> /\ final_df = <<>> /\ printed = <<>> /\ merge_result = <<>>
    /\ environment = <<>> /\ api_key = "" /\ remote_called = FALSE
    /\ df_week9_full = <<>> /\ df_week10_short = <<>> /\ both_desc_uuids = {}
    /\ df_merged = <<>> /\ metrics = <<>>

PrepNext == PrepLoad \/ PrepFilter \/ PrepSave \/ PrepSummary

PrepSpec == PrepInit /\ [][PrepNext]_vars

(***************************************************************************)
(* extract_year_from_date, the same in both scripts.  A date cell is a     *)
(* sequence of characters, NaN when the cell is missing.                   *)
(***************************************************************************)
Digits == {"0", "1", "2", "3", "4", "5", "6", "7", "8", "9"}

Letters == {"a", "b", "c", "d", "e", "f", "g", "j", "l", "m", "n", "o", "p", "r", "s", "t",
            "u", "v", "y", "A", "N"}

NotAvailable == <<"N", "/", "A">>

\* \w of the regular expression: letters, digits and the underscore
IsWord(char) == char \in Digits \cup Letters \cup {"_"}

\* \b before position i of str (i = Len(str) + 1: at the end): exactly one
\* of the characters on its two sides is a word character
WordBoundary(str, i) ==
    (i > 1 /\ IsWord(str[i - 1])) # (i <= Len(str) /\ IsWord(str[i]))

\* \b(19|20)\d{2}\b matches at position i of str
YearAt(str, i) ==
    /\ i + 3 <= Len(str)
    /\ WordBoundary(str, i)
    /\ <<str[i], str[i + 1]>> \in {<<"1", "9">>, <<"2", "0">>}
    /\ str[i + 2] \in Digits /\ str[i + 3] \in Digits
    /\ WordBoundary(str, i + 4)

\* re.search: the leftmost match, None when there is none
ExtractYearFromDate(date_str) ==
    IF date_str = NaN \/ date_str = <<>> \/ date_str = NotAvailable THEN NotAvailable
    ELSE LET str == Strip(date_str)
             matches == {i \in 1..Len(str) : YearAt(str, i)}
         IN  IF matches = {} THEN NotAvailable
             ELSE LET i == CHOOSE m \in matches : \A n \in matches : m <= n
                  IN  SubSeq(str, i, i + 3)

yearOther ==
    <<mode, num_batches, batch_num, config, total_startups, max_requests_per_batch,
      startups_per_batch, batch_rows, parseVars, mergeVars, startVars, compareVars, prepVars,
      fileVars, histVars, remote, batch_ids, batch_id, status, all_done, failed, totals>>

\* year_founded = extract_year_from_date(founded_date)
ExtractYear ==
    /\ pc = "y_call"
    /\ year_founded' = ExtractYearFromDate(founded_date)
    /\ pc' = "y_returned"
    /\ UNCHANGED <<founded_date, yearOther>>

\* format_user_message returns; the next row
NextRow ==
    /\ pc = "y_returned"
    /\ pc' = "done"
    /\ UNCHANGED <<yearVars, yearOther>>

\* the date cells: a missing cell, the documented formats, dates with spaces
\* around them, and every text of a few characters of a small alphabet
DateChars == {"1", "9", "2", "0", "n", "-"}

RECURSIVE TextsUpTo(_)
TextsUpTo(n) ==
    IF n = 0 THEN {<<>>}
    ELSE LET shorter == TextsUpTo(n - 1)
         IN  shorter \cup {Append(t, c) : t \in shorter, c \in DateChars}

DocumentedDates ==
    {<<"0", "1", "n", "o", "v", "2", "0", "1", "6">>,
     <<"2", "0", "1", "6", "-", "1", "1", "-", "0", "1">>}

DateCells ==
    {NaN, NotAvailable, <<" ", "2", "0", "1", "6">>, <<"1", "9", "9", "8", " ">>}
        \cup DocumentedDates \cup TextsUpTo(MaxDateLen)

YearInit ==
    /\ mode \in {"parallel", "sequential"}
    /\ pc = "y_call"
    /\ founded_date \in DateCells
    /\ year_founded = <<>>
    /\ failed = 0
    /\ totals = <<>>
    /\ INPUT_CSV = <<>> /\ df = <<>> /\ df_both = <<>>
    /\ OUTPUT_CSV = [exists |-> FALSE, rows |-> <<>>]
    /\ config = <<>>
    /\ total_startups = 0 /\ max_requests_per_batch = 0 /\ startups_per_batch = 0
    /\ num_batches = 0 /\ batch_num = 0 /\ batch_rows = <<>>
    /\ jsonl_file = <<>> /\ batch_id_file = <<>> /\ results_jsonl = <<>> /\ results_csv = <<>>
    /\ output_csv = [exists |-> FALSE, batches |-> <<>>]
    /\ remote = <<>> /\ batch_ids = <<>> /\ batch_id = None /\ status = "" /\ all_done = TRUE
    /\ run = 1 /\ attempts = <<>> /\ submit_raised = <<>>
    /\ seen_completed = <<>> /\ fetched = <<>> /\ merge_called = FALSE
    /\ prior_complete = FALSE
    /\ lines = <<>> /\ line_num = 0 /\ parsed_results = <<>> /\ warnings = 0
    /\ batch_tables = <<>> /\ final_df = <<>> /\ printed = <<>> /\ merge_result = <<>>
    /\ environment = <<>> /\ api_key = "" /\ remote_called = FALSE
    /\ df_week9_full = <<>> /\ df_week10_short = <<>> /\ both_desc_uuids = {}
    /\ df_merged = <<>> /\ metrics = <<>>

YearNext == ExtractYear \/ NextRow

YearSpec == YearInit /\ [][YearNext]_vars

(***************************************************************************)
(* helper_scripts/check_all_batches_status.py: the status loop and the     *)
(* summary.  The helper finds num_batches identifier files; the batch of   *)
(* file b is remote[batch_id_file[b]].                                      *)
(***************************************************************************)
\* the counter a retrieved status adds one to
CounterOf(s) ==
    IF s = "completed" THEN "total_completed"
    ELSE IF s = "failed" THEN "total_failed"
    ELSE IF s = "in_progress" THEN "total_in_progress"
    ELSE "total_pending"

\* the verdict the summary prints
Verdict(t, files) ==
    IF t.total_completed = files THEN "all_completed"
    ELSE IF t.total_in_progress > 0 \/ t.total_pending > 0 THEN "still_processing"
    ELSE "some_failed"

checkOther ==
    <<mode, num_batches, config, total_startups, max_requests_per_batch, startups_per_batch,
      batch_rows, parseVars, batch_tables, final_df, merge_result, startVars, compareVars,
      prepVars, yearVars, fileVars, histVars, remote, batch_ids, batch_id, all_done, failed>>

\* client.batches.retrieve(batch_id) returns for the file at hand
CheckRetrieve ==
    /\ pc = "k_loop" /\ batch_num <= num_batches
    /\ status' = RemoteStatus(batch_id_file[batch_num])
    /\ totals' = [totals EXCEPT ![CounterOf(status')] = @ + 1]
    /\ batch_num' = batch_num + 1
    /\ UNCHANGED <<pc, printed, checkOther>>

\* except Exception: the batch is counted as failed
CheckRetrieveRaise ==
    /\ pc = "k_loop" /\ batch_num <= num_batches
    /\ totals' = [totals EXCEPT !.total_failed = @ + 1]
    /\ batch_num' = batch_num + 1
    /\ UNCHANGED <<pc, status, printed, checkOther>>

\* the summary and its verdict
CheckSummary ==
    /\ pc = "k_loop" /\ batch_num > num_batches
    /\ printed' = Append(printed, <<Verdict(totals, num_batches), <<>>, 0>>)
    /\ pc' = "done"
    /\ UNCHANGED <<batch_num, status, totals, checkOther>>

\* the helper is started over one to MaxIdFiles identifier files, every batch
\* in any of the states of the service
CheckInit ==
    /\ mode = "status_check"
    /\ pc = "k_loop"
    /\ num_batches \in 1..MaxIdFiles
    /\ batch_num = 1
    /\ batch_id_file = [b \in 1..num_batches |-> b]
    /\ \E states \in [1..num_batches -> NonTerminal \cup Terminal] :
          remote = [b \in 1..num_batches |-> [status |-> states[b], num |-> b]]
    /\ totals = [total_completed |-> 0, total_in_progress |-> 0, total_failed |-> 0,
                 total_pending |-> 0]
    /\ printed = <<>> /\ status = ""
    /\ config = <<>>
    /\ total_startups = 0 /\ max_requests_per_batch = 0 /\ startups_per_batch = 0
    /\ batch_rows = <<>>
    /\ jsonl_file = <<>> /\ results_jsonl = <<>> /\ results_csv = <<>>
    /\ output_csv = [exists |-> FALSE, batches |-> <<>>]
    /\ batch_ids = <<>> /\ batch_id = None /\ all_done = TRUE
    /\ run = 1 /\ attempts = <<>> /\ submit_raised = <<>>
    /\ seen_completed = <<>> /\ fetched = <<>> /\ merge_called = FALSE
    /\ prior_complete = FALSE
    /\ lines = <<>> /\ line_num = 0 /\ parsed_results = <<>> /\ warnings = 0
    /\ batch_tables = <<>> /\ final_df = <<>> /\ merge_result = <<>>
    /\ environment = <<>> /\ api_key = "" /\ remote_called = FALSE
    /\ df_week9_full = <<>> /\ df_week10_short = <<>> /\ both_desc_uuids = {}
    /\ df_merged = <<>> /\ metrics = <<>>
    /\ INPUT_CSV = <<>> /\ df = <<>> /\ df_both = <<>>
    /\ OUTPUT_CSV = [exists |-> FALSE, rows |-> <<>>]
    /\ failed = 0
    /\ founded_date = <<>> /\ year_founded = <<>>

CheckNext == CheckRetrieve \/ CheckRetrieveRaise \/ CheckSummary

CheckSpec == CheckInit /\ [][CheckNext]_vars

(***************************************************************************)
(* Specifications.                                                         *)
(***************************************************************************)
Init == OrchInit

Next == ParProcess \/ SeqProcess \/ Rerun

Spec == Init /\ [][Next]_vars

\* The parallel script alone under fair polling: every status poll of the
\* monitoring loop is answered by the service, and the script takes its steps as
\* long as one is enabled (it runs until main returns; its sleeps end).
ParFairNext == ParAnswered \/ Rerun

ParFairSpec == ParInit /\ [][ParFairNext]_vars /\ WF_vars(ParAnswered)

(***************************************************************************)
(* Properties of the orchestrator.                                         *)
(***************************************************************************)
\* the id under which the running script handles batch b
HandledId(b) == IF mode = "parallel" THEN batch_ids[b] ELSE batch_id_file[b]

\* every batch monitor_all_batches polls is in a terminal state on the service
AllPolledTerminal ==
    \A i \in 1..Len(batch_ids) :
        ~Falsy(batch_ids[i]) => RemoteStatus(batch_ids[i]) \in Terminal

\* C1: once every submitted batch is in one of the four terminal states
\* (where it stays), the polling loop of monitor_all_batches exits.
C1_MonitorExitsOnceAllTerminal ==
    (pc = "p_monitor" /\ AllPolledTerminal) ~> (pc # "p_monitor")

\* C2: an invocation started over a fully completed run (every batch built,
\* submitted, completed and downloaded) submits nothing and downloads nothing.
C2_RerunOfCompletedRunIsSkip ==
    prior_complete => \A b \in Batches : attempts[b] = 0 /\ ~fetched[b]

\* C3: a remote-call error raised while submitting a batch does not abort the
\* run: when main returns, every batch had its turn and the merge was done.
C3_SubmitErrorDoesNotAbort ==
    (/\ pc = "done"
     /\ \E b \in Batches : submit_raised[b]
     /\ \A b \in Batches : jsonl_file[b] # "oversize")
        => (batch_num > num_batches /\ merge_called)

\* C8: result content is fetched for a batch only after a status retrieval of it
\* returned completed, and while the service holds it completed; the raw result
\* file and the parsed table of a batch change only after such a fetch.
C8_OnlyCompletedDownloaded ==
    /\ [](\A b \in Batches : fetched[b] => seen_completed[b])
    /\ [][\A b \in Batches :
            /\ (fetched'[b] /\ ~fetched[b]) =>
                   (seen_completed[b] /\ RemoteStatus(HandledId(b)) = "completed")
            /\ (results_jsonl'[b] # results_jsonl[b] \/ results_csv'[b] # results_csv[b]) =>
                   (fetched[b] /\ seen_completed[b])]_vars

C8_Witness ==
    /\ pc = "done"
    /\ \E b \in Batches, c \in Batches :
          /\ fetched[b] /\ results_csv[b] = "full"
          /\ ~fetched[c] /\ results_csv[c] = "absent" /\ batch_id_file[c] >= 1
          /\ RemoteStatus(batch_id_file[c]) \in {"failed", "expired", "cancelled"}

\* C9: whenever the upload step has reported a batch as submitted (upload_batch
\* returned its id, upload_all_batches recorded its id), the batch's id file
\* holds exactly that id.
C9_IdPersistedBeforeReported ==
    /\ mode = "sequential" /\ pc \in {"s_uploaded", "s_monitor"} =>
           (batch_id # None /\ batch_id_file[batch_num] = batch_id)
    /\ mode = "parallel" =>
           \A i \in 1..Len(batch_ids) :
               batch_ids[i] # None => batch_id_file[i] = batch_ids[i]

C9_Witness ==
    /\ mode = "parallel" /\ pc = "p_monitor"
    /\ \E i \in 1..Len(batch_ids) : attempts[i] = 1 /\ batch_ids[i] >= 1

\* C10: a batch is submitted at most once per invocation, and once its
\* submission raised, its payload file is there and stays, and its id file is
\* not touched for the rest of the invocation.
C10_FailedSubmitLeavesFileBuilt ==
    /\ [](\A b \in Batches : attempts[b] <= 1)
    /\ [][\A b \in Batches :
            (submit_raised'[b] /\ run' = run) =>
                /\ Exists(jsonl_file[b])
                /\ jsonl_file'[b] = jsonl_file[b]
                /\ batch_id_file'[b] = batch_id_file[b]]_vars

C10_Witness ==
    \E b \in Batches :
        /\ submit_raised[b] /\ attempts[b] = 1
        /\ pc \in {"p_monitor", "done"}
        /\ batch_id_file[b] = NoFile

\* C11: the build step leaves a payload file that is already there as it is:
\* while create_all_batch_files / create_single_batch_file is at a batch whose
\* payload file exists, no step writes to a payload file.
C11_BuildSkipsExistingPayload ==
    [][\A b \in Batches :
          (/\ pc \in {"p_create", "s_create"}
           /\ b = batch_num
           /\ jsonl_file[b] # "absent") => jsonl_file'[b] = jsonl_file[b]]_vars

\* the second invocation has passed batch 1, whose payload file it found as a
\* terminated first invocation left it
C11_Witness ==
    /\ run = 2 /\ num_batches = 2 /\ batch_num = 2
    /\ pc \in {"p_create", "s_upload"}
    /\ jsonl_file[1] = "partial"

\* the download step of the batch at hand has fetched the result content of a
\* completed batch and parsed at least one result record out of it
DownloadFetched == pc \in {"p_dl_csv", "s_dl_csv"}

\* the download step of the batch at hand returns (the loop goes on to the next batch)
DownloadReturns == pc' \in {"p_download", "s_cleanup"}

\* C12: a batch whose parsed table exists when the invocation reaches it is not
\* fetched again and its raw result file and parsed table stay as they are; and
\* a download step that fetched the results of a completed batch and parsed a
\* record out of them leaves the batch's parsed table behind.
C12_DownloadSkipsExistingTable ==
    [][\A b \in Batches :
          /\ (results_csv[b] # "absent" /\ ~fetched[b]) =>
                 (/\ ~fetched'[b]
                  /\ results_jsonl'[b] = results_jsonl[b]
                  /\ results_csv'[b] = results_csv[b])
          /\ (b = batch_num /\ DownloadFetched /\ DownloadReturns) =>
                 results_csv'[b] = "full"]_vars

C15_SequentialOneAtATime ==
    /\ [](mode = "sequential" =>
            \A b \in Batches :
                /\ b < batch_num =>
                       /\ attempts[b] = 1
                       /\ batch_id_file[b] >= 1
                       /\ RemoteStatus(batch_id_file[b]) \in Terminal
                /\ b > batch_num => attempts[b] = 0)
    /\ [][mode = "sequential" =>
            /\ \A b \in Batches : jsonl_file'[b] # jsonl_file[b] => b = batch_num
            /\ batch_num' = batch_num + 1 =>
                   \/ pc = "s_cleanup"
                   \/ pc \in {"s_monitor", "s_poll"} /\ status' \in Terminal \ {"completed"}]_vars

\* batch 2 is being polled, not yet terminal, after batch 1 ended
C15_Witness ==
    /\ mode = "sequential" /\ pc = "s_poll" /\ batch_num = 2
    /\ attempts[1] = 1 /\ attempts[2] = 1
    /\ batch_id >= 1 /\ RemoteStatus(batch_id) \in NonTerminal
    /\ RemoteStatus(batch_id_file[1]) = "completed" /\ results_csv[1] = "full"

\* the phase of main a step of the parallel script belongs to: building,
\* submitting, polling, downloading, merging
ParPhase(p) ==
    IF p \in {"p_create", "p_create_write"} THEN 1
    ELSE IF p \in {"p_upload", "p_batch_create", "p_save_id", "p_save_id_write", "p_record"} THEN 2
    ELSE IF p = "p_monitor" THEN 3
    ELSE IF p \in {"p_download", "p_dl_fetch", "p_dl_save", "p_dl_parse", "p_dl_csv"} THEN 4
    ELSE 5

\* C16: in an invocation of the parallel script the submission attempts of all
\* batches come before the first status poll, and every download comes after
\* the polling loop has exited: submissions are made in the submitting phase
\* only, polls in the polling phase only, result content is fetched and result
\* files are written in the downloading phase only, polling starts only when
\* every batch had its submission turn, and an invocation never goes back to
\* an earlier phase.
C16_SubmitThenPollThenDownload ==
    /\ [](mode = "parallel" =>
            /\ ParPhase(pc) >= 3 => Len(batch_ids) = num_batches
            /\ ParPhase(pc) <= 3 => \A b \in Batches : ~fetched[b])
    /\ [][(mode = "parallel" /\ run' = run) =>
            /\ ParPhase(pc') >= ParPhase(pc)
            /\ attempts' # attempts => ParPhase(pc) = 2
            /\ Len(remote') # Len(remote) => ParPhase(pc) = 2
            /\ (ParPoll \/ ParPollRaise) => ParPhase(pc) = 3
            /\ (fetched' # fetched \/ results_jsonl' # results_jsonl
                    \/ results_csv' # results_csv) => ParPhase(pc) = 4]_vars

\* a batch was submitted, polled until it completed, and then downloaded
C16_Witness ==
    /\ mode = "parallel" /\ pc = "done" /\ num_batches = 2
    /\ \A b \in Batches : attempts[b] = 1
    /\ \E b \in Batches : fetched[b] /\ results_csv[b] = "full"

(***************************************************************************)
(* The parse loop: C13, C17 .. C20.                                        *)
(***************************************************************************)
\* the first CSV row of the response a line carries; no field for a line that
\* carries none
LineRow(line) ==
    IF LineRaises(line) \/ CsvRows(line.content) = <<>> THEN <<>>
    ELSE CsvRows(line.content)[1]

\* the line the loop is at, while it is at one
AtLine == pc = "parse" /\ line_num <= Len(lines)

\* C13: for the same response lines the parallel and the sequential script
\* build the same table: the same records, with the same values, in the same
\* order.
C13_BothModesSameTable ==
    pc = "parsed" =>
        parsed_results = (IF mode = "parallel" THEN SeqTable(lines) ELSE ParTable(lines))

\* a malformed line: invalid JSON, no response envelope, or fewer than seven
\* CSV fields
Malformed(line) == LineRaises(line) \/ Len(LineRow(line)) < 7

\* the records of the lines that are not malformed, in line order
RECURSIVE WellFormedRecords(_)
WellFormedRecords(ls) ==
    IF ls = <<>> THEN <<>>
    ELSE (IF Malformed(Head(ls)) THEN <<>> ELSE <<Record(LineRow(Head(ls)))>>)
             \o WellFormedRecords(Tail(ls))

\* C17: each line is parsed on its own: the loop goes from every line to the
\* next one, whatever the line is, keeping the records it has; a malformed line
\* adds no record and every other line adds its record, so the table is the
\* records of the lines that are not malformed, in line order.
C17_MalformedLinesDroppedOthersKept ==
    /\ [](pc = "parsed" => parsed_results = WellFormedRecords(lines))
    /\ [][AtLine =>
            /\ pc' = "parse" /\ line_num' = line_num + 1
            /\ Len(parsed_results') >= Len(parsed_results)
            /\ SubSeq(parsed_results', 1, Len(parsed_results)) = parsed_results]_vars

\* C18: the lines the loop reported as dropped and the records it parsed add
\* up to the number of response lines.
C18_DroppedLinesAccounted ==
    pc = "parsed" => warnings + Len(parsed_results) = Len(lines)

\* C19 as stated: a line adds a record only if its first CSV row has exactly
\* seven fields; a row of fewer or more fields adds none.
C19_ExactlySevenFields ==
    [][AtLine =>
          /\ parsed_results' # parsed_results => Len(LineRow(lines[line_num])) = 7
          /\ Len(LineRow(lines[line_num])) # 7 => parsed_results' = parsed_results]_vars

\* C19: a line adds a record only if its first CSV row has at least seven
\* fields: a row of fewer fields adds none; the record is built from the first
\* seven fields, the fields after the seventh are ignored, and a row of seven
\* or more fields that carries an identifier does add its record.
C19_AtLeastSevenFields ==
    [][AtLine =>
          LET row == LineRow(lines[line_num]) IN
          /\ parsed_results' # parsed_results =>
                 /\ Len(row) >= 7
                 /\ parsed_results' = Append(parsed_results, [i \in 1..7 |-> Strip(row[i])])
          /\ Len(row) < 7 => parsed_results' = parsed_results
          /\ (Len(row) >= 7 /\ Strip(row[1]) # <<>>) => parsed_results' # parsed_results]_vars

C19_Witness ==
    /\ pc = "parsed" /\ Len(lines) = 2
    /\ Len(LineRow(lines[1])) = 8 /\ Len(LineRow(lines[2])) = 6
    /\ parsed_results = <<[i \in 1..7 |-> LineRow(lines[1])[i]]>>

\* the line is the row written as quoted CSV
Carries(line, row) == line.kind = "response" /\ line.content = Serialize(row)

\* C20 as stated: a row of seven values written as one quoted CSV row is
\* parsed into the record of exactly these seven values, in their order.
C20_RoundTripExact ==
    [][AtLine =>
          \A row \in SevenFieldRows :
              (Carries(lines[line_num], row) /\ parsed_results' # parsed_results) =>
                  parsed_results' = Append(parsed_results, row)]_vars

\* C20: a row of seven values written as one quoted CSV row is parsed into the
\* seven values in their order, each with the blanks at its two ends removed
\* and otherwise unchanged (commas and quotes inside a value are kept); the
\* parallel script adds that record, the sequential one adds it when the
\* identifier is left non-empty.
C20_RoundTripStripped ==
    [][AtLine =>
          \A row \in SevenFieldRows :
              Carries(lines[line_num], row) =>
                  /\ ParseClassificationResult(lines[line_num].content)
                         = [i \in 1..7 |-> Strip(row[i])]
                  /\ (mode = "parallel" \/ parsed_results' # parsed_results) =>
                         parsed_results' = Append(parsed_results, [i \in 1..7 |-> Strip(row[i])])]_vars

C20_Witness ==
    /\ pc = "parsed" /\ Len(lines) = 2
    /\ Carries(lines[1], FieldRow(7, <<"a">>, <<"a", Comma, "b">>))
    /\ Carries(lines[2], FieldRow(7, <<Space, "a", Space>>, <<"a">>))
    /\ parsed_results = <<FieldRow(7, <<"a">>, <<"a", Comma, "b">>),
                          FieldRow(7, <<"a">>, <<"a">>)>>

(***************************************************************************)
(* merge_all_results: C21 .. C23.                                          *)
(***************************************************************************)
RECURSIVE RowsOf(_)
RowsOf(tables) ==
    IF tables = <<>> THEN 0 ELSE Len(batch_tables[Head(tables)]) + RowsOf(Tail(tables))

\* C21: the merged table is the batch tables in ascending batch number, the
\* rows of a batch in their order (batch 2 before batch 10), and it has as many
\* rows as the tables merged have together.
C21_MergedInAscendingBatchOrder ==
    (pc = "done" /\ output_csv.exists) =>
        /\ \A i, j \in 1..Len(final_df) :
               i < j => \/ final_df[i][1] < final_df[j][1]
                        \/ final_df[i][1] = final_df[j][1] /\ final_df[i][2] < final_df[j][2]
        /\ Len(final_df) = RowsOf(output_csv.batches)

\* C22: when no batch table is found, merge_all_results writes no merged
\* table, its outcome differs from the one of a merge that succeeded (which
\* returns None), and main does not print that the run is complete.
C22_NoTablesFailsDistinguishably ==
    (pc \in {"m_return", "done"} /\ \A b \in Batches : ~Exists(results_csv[b])) =>
        /\ ~output_csv.exists
        /\ merge_result # <<None>>
        /\ \A k \in 1..Len(printed) : printed[k][1] # "complete"

\* the message names batch b: by its path or by its number
NamesBatch(message, b) == message[2] = OutputPath(b) \/ message[2] = DigitCodes(b)

\* C23: when some but not all of the expected batches have a table, the
\* tables present are merged, and the messages give the number of batches
\* merged against the number expected and name every missing batch.
C23_PartialMergeReportsDeficit ==
    (/\ pc = "done"
     /\ \E b \in Batches : results_csv[b] = "full"
     /\ \E b \in Batches : ~Exists(results_csv[b])) =>
        /\ output_csv.exists
        /\ \A b \in Batches : results_csv[b] = "full" =>
               \E k \in 1..Len(output_csv.batches) : output_csv.batches[k] = b
        /\ \E k \in 1..Len(printed) :
               printed[k][1] \in {"found", "expected"} /\ printed[k][3] = num_batches
        /\ \A b \in Batches : ~Exists(results_csv[b]) =>
               \E k \in 1..Len(printed) : NamesBatch(printed[k], b)

(***************************************************************************)
(* Record counts of a run: C24.                                            *)
(***************************************************************************)
RECURSIVE TableRowsTotal(_)
TableRowsTotal(tables) ==
    IF tables = <<>> THEN 0 ELSE Len(Head(tables)) + TableRowsTotal(Tail(tables))

\* C24: at the end of a fully successful run (every batch completed, one
\* response line per request, every line a well-formed response) the batch
\* tables hold N records in all; and at any time the records parsed for a
\* batch are no more than the response lines read for it.
C24_RecordCountsSumToN ==
    /\ pc = "done" => TableRowsTotal(batch_tables) = total_startups
    /\ Len(parsed_results) <= Len(lines)
    /\ pc = "parse" => Len(parsed_results) <= line_num - 1

(***************************************************************************)
(* Configuration errors: C25.                                              *)
(***************************************************************************)
\* the script is started without a key in the key file or, for a pipeline
\* script, without the input dataset or the system prompt file
ConfigurationError ==
    \/ environment.key_file # "key"
    \/ mode # "status_check" /\ (~environment.input_csv \/ ~environment.system_prompt)

\* C25: a script started with a configuration error never gets to call the
\* remote service: it stops before, whichever entry script it is.
C25_ConfigErrorStopsBeforeRemoteCall ==
    ConfigurationError => (~remote_called /\ pc # "running")

(***************************************************************************)
(* Resuming after a kill: C26.                                             *)
(***************************************************************************)
\* C26: whenever a run is about to treat the payload file of a batch as built
\* (the file exists at the build step), the file holds every request of the
\* batch; whenever it is about to treat the table of a batch as downloaded
\* (the table exists at the download step of the parallel script), the table
\* holds every result of the batch.
C26_SkippedArtifactsAreComplete ==
    /\ (pc \in {"p_create", "s_create"} /\ batch_num <= num_batches
            /\ Exists(jsonl_file[batch_num]))
           => jsonl_file[batch_num] \in {"full", "oversize"}
    /\ (pc = "p_download" /\ batch_num <= Len(batch_ids) /\ ~Falsy(batch_ids[batch_num])
            /\ Exists(results_csv[batch_num]))
           => results_csv[batch_num] = "full"

(***************************************************************************)
(* The sequential monitor: C30.                                            *)
(***************************************************************************)
\* a step of check_single_batch_status that is not the end of the invocation
MonitorStep == mode = "sequential" /\ pc = "s_poll" /\ ~Falsy(batch_id) /\ run' = run

\* C30: in sequential mode check_single_batch_status returns exactly when a
\* poll observes a terminal status (completed, failed, expired or cancelled)
\* and returns that status: a poll that observes a terminal status leaves the
\* loop with it, a poll that observes any other status stays in the loop with
\* the same batch and nothing returned, and the function is left in no other
\* way (a poll that raises changes nothing and is followed by another poll).
C30_ReturnsExactlyOnTerminalPoll ==
    [][/\ MonitorStep =>
             /\ remote'[batch_id].status \in Terminal <=> pc' # "s_poll"
             /\ pc' # "s_poll" =>
                    /\ status' = remote'[batch_id].status
                    /\ pc' = IF status' = "completed" THEN "s_download"
                             ELSE IF batch_num = num_batches THEN "s_merge" ELSE "s_create"
             /\ pc' = "s_poll" =>
                    /\ status' = status /\ batch_id' = batch_id /\ batch_num' = batch_num
       /\ (mode = "sequential" /\ pc = "s_monitor" /\ run' = run) =>
             /\ pc' = "s_poll"
             /\ status' \notin Terminal]_vars

\* the monitor of batch 2 has returned "expired": the last poll observed it
C30_Witness ==
    /\ mode = "sequential" /\ batch_num = 2 /\ pc = "s_create" /\ num_batches >= 2
    /\ status = "expired" /\ RemoteStatus(batch_id_file[1]) = "expired"
    /\ attempts[1] = 1 /\ attempts[2] = 0

(***************************************************************************)
(* The comparator: C27, C28.                                               *)
(***************************************************************************)
\* a joined row whose flags and confidences are all numbers
NumericRow(row) ==
    /\ row.AI_native_week9_both # "NaN" /\ row.Confidence_1to5_week9_both # "NaN"
    /\ row.AI_native_week10_short # "NaN" /\ row.Confidence_1to5_week10_short # "NaN"

\* C27: joined rows with a non-numeric or missing flag or confidence are left
\* out of the numeric aggregates: the agreement rate and the two
\* classification-positive rates are taken over the all-numeric rows only
\* (numerator and denominator), and no such row is among the reported
\* disagreements.
C27_NonNumericRowsExcluded ==
    pc = "done" =>
        LET valid == SelectSeq(df_merged, NumericRow)
        IN  /\ metrics.total = Len(valid)
            /\ metrics.agreements = CountRows(valid, Agreement)
            /\ metrics.agreement_rate = Percent(CountRows(valid, Agreement), Len(valid))
            /\ metrics.week9_ai_rate = Percent(CountRows(valid, Week9AI), Len(valid))
            /\ metrics.week10_ai_rate = Percent(CountRows(valid, Week10AI), Len(valid))
            /\ metrics.disagreements = Len(valid) - CountRows(valid, Agreement)
            /\ \A i \in 1..Len(metrics.df_disagree) : NumericRow(metrics.df_disagree[i])

\* the identifiers both result tables have, among those of the dataset
SharedIds == (DOMAIN df_week9_full \cap DOMAIN df_week10_short) \cap both_desc_uuids

\* the shared identifiers whose two flags are the same number
EqualFlagIds ==
    {id \in SharedIds : /\ df_week9_full[id].flag \in {"0", "1"}
                         /\ df_week9_full[id].flag = df_week10_short[id].flag}

NonBlank(text) == Strip(text) # <<>>

\* C29: when the filter has ended, the filtered dataset is written and holds
\* exactly the rows of the raw dataset whose short and long description are
\* both present and non-blank after trimming, unchanged and in their
\* original order.
C29_FilterKeepsExactlyRowsWithBoth ==
    pc \in {"done", "raised"} =>
        /\ OUTPUT_CSV.exists
        /\ OUTPUT_CSV.rows =
               SelectSeq(INPUT_CSV, LAMBDA row : /\ NonBlank(row.short_description)
                                                 /\ NonBlank(row.long_description))

(***************************************************************************)
(* The polling rounds of the parallel script: C31 .. C33.                  *)
(***************************************************************************)
\* a step of monitor_all_batches that is not the end of the invocation
RoundStep == mode = "parallel" /\ pc = "p_monitor" /\ run' = run

\* C31: in a poll round of the parallel script every batch is visited exactly
\* once, in order, whatever was observed for the batches before it and
\* whether or not a query before it raised: a step of the round handles the
\* batch at hand and moves on to the next one, a query reads the status of
\* the batch at hand only, and the round ends only after the last batch.
C31_EveryBatchPolledOncePerRound ==
    [][RoundStep =>
          /\ batch_ids' = batch_ids
          /\ batch_num <= Len(batch_ids) =>
                 /\ pc' = "p_monitor"
                 /\ batch_num' = batch_num + 1
                 /\ \A id \in DOMAIN remote :
                        remote'[id] # remote[id] =>
                            ~Falsy(batch_ids[batch_num]) /\ id = batch_ids[batch_num]
                 /\ Falsy(batch_ids[batch_num]) => all_done' = all_done
          /\ batch_num > Len(batch_ids) =>
                 /\ pc' = IF all_done THEN "p_download" ELSE "p_monitor"
                 /\ batch_num' = 1
                 /\ remote' = remote]_vars

\* the round is at its end with all_done cleared by the first batch, which is
\* not terminal, and the second batch was still queried and seen completed
C31_Witness ==
    /\ mode = "parallel" /\ pc = "p_monitor" /\ Len(batch_ids) = 2 /\ batch_num = 3
    /\ ~all_done
    /\ ~Falsy(batch_ids[1]) /\ ~Falsy(batch_ids[2])
    /\ RemoteStatus(batch_ids[1]) \in NonTerminal
    /\ RemoteStatus(batch_ids[2]) = "completed" /\ seen_completed[2]

\* the batches the service holds for batch number b
RemoteBatchesOf(b) == {id \in DOMAIN remote : remote[id].num = b}

AtFailedSubmission ==
    /\ mode = "parallel" /\ batch_num <= Len(batch_ids) /\ batch_ids[batch_num] = None

\* C33: in parallel mode a batch whose submission failed in this invocation
\* (recorded with None) is never polled and never downloaded, is counted as
\* failed in every poll round, and does not keep the polling loop from
\* ending: its turn in a round queries nothing, adds one to the failed count
\* and leaves all_done as it is, its turn in the download loop fetches and
\* writes nothing, and no download step is ever taken for it.
C33_FailedSubmissionOnlyCounted ==
    /\ [](AtFailedSubmission =>
             /\ pc \in {"p_upload", "p_monitor", "p_download"}
             /\ submit_raised[batch_num]
             /\ ~seen_completed[batch_num] /\ ~fetched[batch_num])
    /\ [][(AtFailedSubmission /\ run' = run) =>
             /\ pc = "p_monitor" =>
                    /\ remote' = remote
                    /\ failed' = failed + 1
                    /\ all_done' = all_done
                    /\ pc' = "p_monitor" /\ batch_num' = batch_num + 1
             /\ pc = "p_download" =>
                    /\ remote' = remote
                    /\ fileVars' = fileVars /\ fetched' = fetched
                    /\ pc' = "p_download" /\ batch_num' = batch_num + 1]_vars

\* the polling loop has ended although batch 1 was recorded with None, and
\* the download loop has passed batch 1 without a result file
C33_Witness ==
    /\ mode = "parallel" /\ pc = "p_download" /\ batch_num = 2 /\ Len(batch_ids) = 2
    /\ batch_ids[1] = None /\ ~Falsy(batch_ids[2])
    /\ results_jsonl[1] = "absent" /\ results_csv[1] = "absent"
    /\ RemoteStatus(batch_ids[2]) = "completed"

(***************************************************************************)
(* The size check of the sequential upload: C34.                           *)
(***************************************************************************)
\* upload_batch is entered with a payload file above MAX_FILE_SIZE_MB
AtOversizedUpload ==
    /\ mode = "sequential" /\ pc = "s_upload" /\ jsonl_file[batch_num] = "oversize"

\* C34: in sequential mode upload_batch never sends an oversized payload:
\* entered with a payload file above MAX_FILE_SIZE_MB it returns None (main
\* exits) with no call to the service, no new remote batch and the batch's
\* identifier file as it was, and no submission is ever under way for a
\* batch whose payload is oversized.
C34_OversizedPayloadNotSent ==
    /\ [](mode = "sequential" =>
             (pc \in {"s_batch_create", "s_save_id", "s_save_id_write", "s_uploaded"}
                  => jsonl_file[batch_num] # "oversize"))
    /\ [][(AtOversizedUpload /\ run' = run) =>
             /\ pc' = "done" /\ batch_id' = None
             /\ remote' = remote
             /\ attempts' = attempts /\ submit_raised' = submit_raised
             /\ batch_id_file' = batch_id_file]_vars

\* main has exited at batch 2, whose payload is oversized and was not sent,
\* after batch 1 went through
C34_Witness ==
    /\ mode = "sequential" /\ pc = "done" /\ num_batches >= 2 /\ batch_num = 2
    /\ jsonl_file[2] = "oversize" /\ attempts[2] = 0 /\ batch_id_file[2] = NoFile
    /\ attempts[1] = 1 /\ batch_id = None

(***************************************************************************)
(* extract_year_from_date: C35.                                            *)
(***************************************************************************)
\* a run of digits starts or ends before position i of str
DigitBoundary(str, i) ==
    (i > 1 /\ str[i - 1] \in Digits) # (i <= Len(str) /\ str[i] \in Digits)

\* a four-digit year 19xx or 20xx stands at position i of str: four digits,
\* no digit before or after them
YearDigitsAt(str, i) ==
    /\ i + 3 <= Len(str)
    /\ <<str[i], str[i + 1]>> \in {<<"1", "9">>, <<"2", "0">>}
    /\ str[i + 2] \in Digits /\ str[i + 3] \in Digits
    /\ DigitBoundary(str, i) /\ DigitBoundary(str, i + 4)

YearsIn(str) == {SubSeq(str, i, i + 3) : i \in {j \in 1..Len(str) : YearDigitsAt(str, j)}}

\* C35: extract_year_from_date returns a four-digit year (19xx or 20xx)
\* contained in the date string, also when the digits directly follow
\* letters as in '01nov2016', and returns 'N/A' only when the value is
\* missing, empty, 'N/A' or contains no such year.
C35_YearExtractedFromBothFormats ==
    pc \in {"y_returned", "done"} =>
        IF founded_date \in {NaN, <<>>, NotAvailable} THEN year_founded = NotAvailable
        ELSE /\ year_founded # NotAvailable => year_founded \in YearsIn(founded_date)
             /\ year_founded = NotAvailable => YearsIn(founded_date) = {}

(***************************************************************************)
(* The partitioner never divides by zero: C36.                             *)
(***************************************************************************)
\* C36: for a record count N >= 1 and a limit L >= 1 the partitioner returns
\* num_batches >= 1 and startups_per_batch >= 1 with num_batches <= N, so the
\* floor division by num_batches has a divisor of at least 1 and no batch
\* built from the result is empty.
C36_AtLeastOneBatchAndOneRow ==
    (pc # "calc" /\ total_startups >= 1 /\ max_requests_per_batch >= 1) =>
        /\ num_batches >= 1
        /\ num_batches <= total_startups
        /\ startups_per_batch >= 1
        /\ \A b \in 1..Len(batch_rows) : BatchLen(batch_rows[b]) >= 1

\* the smallest limit: one record per batch, as many batches as records
C36_Witness ==
    /\ pc = "rows_done" /\ max_requests_per_batch = 1 /\ total_startups = MaxN
    /\ num_batches = MaxN /\ startups_per_batch = 1 /\ Len(batch_rows) = MaxN

(***************************************************************************)
(* The status-check helper: C37.                                           *)
(***************************************************************************)
\* C37: the helper counts every identifier file in exactly one of completed,
\* in progress, pending and failed, so the four totals add up to the number
\* of files at the summary; it prints the 'still processing' verdict only
\* when some batch is in a non-terminal state on the service, and the 'all
\* completed' verdict exactly when every batch is completed (every batch was
\* retrieved as completed).
C37_TotalsAndVerdicts ==
    /\ (mode = "status_check" /\ pc = "k_loop") =>
           totals.total_completed + totals.total_in_progress + totals.total_failed
               + totals.total_pending = batch_num - 1
    /\ (mode = "status_check" /\ pc = "done") =>
           /\ totals.total_completed + totals.total_in_progress + totals.total_failed
                  + totals.total_pending = num_batches
           /\ printed[1][1] = "still_processing" =>
                  \E b \in Batches : RemoteStatus(batch_id_file[b]) \in NonTerminal
           /\ printed[1][1] = "all_completed" =>
                  \A b \in Batches : RemoteStatus(batch_id_file[b]) = "completed"
           /\ ((\A b \in Batches : RemoteStatus(batch_id_file[b]) = "completed")
                   /\ totals.total_failed = 0) => printed[1][1] = "all_completed"

====
